---- MODULE Spec2Model ----
(***************************************************************************)
(* Field gathering of FBPIC on the CPU (fbpic/particles/gathering/         *)
(* threading_methods.py): the linear and cubic electromagnetic gather and  *)
(* the linear and cubic envelope gather, as state machines over the        *)
(* particle arrays, the interpolation grids and the output arrays.         *)
(*                                                                         *)
(* Numbers.  A Python float is modelled by an exact element of the field   *)
(* Q(sqrt 3): the triple <<a, b, d>> stands for (a + b*sqrt(3)) / d with   *)
(* d > 0 and gcd(a, b, d) = 1, so that equal numbers are equal triples.    *)
(* Rounding is not modelled: every statement below is one about the exact  *)
(* arithmetic the kernels approximate.  A complex number is the pair       *)
(* <<re, im>> of two such numbers.                                         *)
(***************************************************************************)
EXTENDS Integers, Sequences, FiniteSets, TLC

Abs(n) == IF n < 0 THEN -n ELSE n

RECURSIVE GCD(_, _)
GCD(m, n) == IF n = 0 THEN m ELSE GCD(n, m % n)

\* The normal form of (a + b*sqrt 3)/d, d # 0.
NormBy(na, nb, nd, g) == <<na \div g, nb \div g, nd \div g>>
Norm(na, nb, nd) ==
    NormBy(na, nb, nd,
           (IF nd < 0 THEN -1 ELSE 1) * GCD(GCD(Abs(na), Abs(nb)), Abs(nd)))

R(n)      == <<n, 0, 1>>
Q(n, d)   == Norm(n, 0, d)
Zero      == R(0)
One       == R(1)
Half      == Q(1, 2)
Sqrt3     == <<0, 1, 1>>

\* Sums and products cancel common factors before they multiply, which
\* keeps the intermediate integers small.
RAddBy(p, q, pf, qf) == Norm(p[1]*pf + q[1]*qf, p[2]*pf + q[2]*qf, p[3]*pf)
RAdd(p, q) == RAddBy(p, q, q[3] \div GCD(p[3], q[3]), p[3] \div GCD(p[3], q[3]))
RNeg(p)    == <<-p[1], -p[2], p[3]>>
RSub(p, q) == RAdd(p, RNeg(q))
RMulParts(pa, pb, qa, qb, d) == Norm(pa*qa + 3*pb*qb, pa*qb + pb*qa, d)
RMulBy(p, q, gp, gq) ==
    RMulParts(p[1] \div gp, p[2] \div gp, q[1] \div gq, q[2] \div gq,
              (p[3] \div gq) * (q[3] \div gp))
RMul(p, q) ==
    RMulBy(p, q, GCD(GCD(Abs(p[1]), Abs(p[2])), q[3]),
                 GCD(GCD(Abs(q[1]), Abs(q[2])), p[3]))
\* 1./p for p # 0: d*(a - b*sqrt 3) / (a^2 - 3 b^2)
RInv(p)    == Norm(p[3]*p[1], -(p[3]*p[2]), p[1]*p[1] - 3*p[2]*p[2])

\* math.floor of a rational number, as the int the kernels convert it to
Floor(p) == p[1] \div p[3]

\* math.sqrt on the squares of rational numbers
ISqrt(n) == CHOOSE k \in 0..n : k*k = n
Sqrt(p) == Q(ISqrt(p[1]), ISqrt(p[3]))

RPow3(p) == RMul(p, RMul(p, p))
RPow2(p) == RMul(p, p)

\* Complex numbers
C(re, im)   == <<re, im>>
CZero       == <<Zero, Zero>>
COne        == <<One, Zero>>
Re(c)       == c[1]
Im(c)       == c[2]
CAdd(c, e)  == <<RAdd(c[1], e[1]), RAdd(c[2], e[2])>>
CMul(c, e)  == <<RSub(RMul(c[1], e[1]), RMul(c[2], e[2])),
                 RAdd(RMul(c[1], e[2]), RMul(c[2], e[1]))>>
CConj(c)    == <<c[1], RNeg(c[2])>>
CScale(s, c) == <<RMul(s, c[1]), RMul(s, c[2])>>
RECURSIVE CPow(_, _)
CPow(c, n)  == IF n = 0 THEN COne ELSE CMul(c, CPow(c, n - 1))

(***************************************************************************)
(* Geometry of the interpolation grid: the scalars every kernel receives.  *)
(***************************************************************************)
Nz    == 4
Nr    == 4
invdz == R(1)
zmin  == R(-2)
invdr == R(2)
rmin  == R(0)

\* Number of macroparticles of the arrays x, y, z
Np == 2
Particles == 0..(Np - 1)

VARIABLES
    x, y, z,                 \* particle positions, one float per particle
    fields,                  \* the twelve grids Er_m0 .. Bz_m1 of the EM gather
    Ex, Ey, Ez, Bx, By, Bz,  \* the fields acting on the particles (outputs)
    env,                     \* a, grad_a_r, grad_a_t, grad_a_z and m_array
    a2, grad_a2_x, grad_a2_y, grad_a2_z,   \* envelope outputs per particle
    gather_gradient, average_a2,           \* flags of the envelope call
    nthreads, ptcl_chunk_indices,          \* chunking of the cubic kernels
    ti, tpc,                 \* per thread: the loop index i and the position
                             \* in the loop body ("shape" or "gather")
    Sr, Sz,                  \* per thread: the private arrays of 4 weights
    kernel,                  \* the gather routine called last
    status,                  \* "idle", "running", "done" (returned), "failed"
    done,                    \* particles whose loop iteration has completed
    loc,                     \* the local variables of the iterations begun
    calls,                   \* number of calls made
    lastPos, old,            \* history: the previous call's inputs and result
    grids,                   \* the grids grid_0_r .. grid_1_z of a halo kernel
    buffer_l, buffer_r,      \* the buffers to the left and to the right
    copy_left, copy_right, nz_start, nz_end,   \* arguments of the launch
    launched,                \* the halo kernel launched, "none" if none
    ran,                     \* the threads (iz, ir) of the launch that have run
    rows,                    \* history: the grid rows the threads have read
    step,                    \* per thread of a replace or add kernel: the index
                             \* of its next access to the grids
    reg,                     \* per thread: the grid values it has read and not
                             \* yet written back
    wrote,                   \* history: per grid cell, the threads that wrote it
    N_batch, batch_size,     \* arguments of ionize_ions_numba
    Ntot, z_max,
    neutral_weight,
    n_ionized,               \* per batch: the ions ionized by the current call
    is_ionized,              \* per ion: 1 if the current call ionized it
    ionization_level,        \* per ion: its ionization level
    w,                       \* per ion: its weight, in units of e
    i_batch, ip,             \* the loop variables of ionize_ions_numba
    ionizing,                \* where ionize_ions_numba stands
    ionizations,             \* history: the calls of ionize_ions_numba so far
    seen,                    \* history: the ions the current call has visited
    entry                    \* history: the levels at first, and the levels
                             \* and weights when the current call was entered

emVars  == <<x, y, z, fields, Ex, Ey, Ez, Bx, By, Bz>>
envVars == <<env, a2, grad_a2_x, grad_a2_y, grad_a2_z, gather_gradient, average_a2>>
thrVars == <<nthreads, ptcl_chunk_indices, ti, tpc, Sr, Sz>>
runVars == <<kernel, status, done, loc, calls, lastPos, old>>
gatherVars   == <<emVars, envVars, thrVars, runVars>>
guardVars    == <<step, reg, wrote>>
boundaryVars == <<grids, buffer_l, buffer_r, copy_left, copy_right,
                  nz_start, nz_end, launched, ran, rows, guardVars>>
ionVars == <<N_batch, batch_size, Ntot, z_max, neutral_weight, n_ionized,
             is_ionized, ionization_level, w, i_batch, ip, ionizing,
             ionizations, seen, entry>>
vars    == <<gatherVars, boundaryVars, ionVars>>

\* A 2d array of complex numbers, indexed [iz, ir]
ZeroGrid == [iz \in 0..(Nz - 1) |-> [ir \in 0..(Nr - 1) |-> CZero]]
UniformGrid(c) == [iz \in 0..(Nz - 1) |-> [ir \in 0..(Nr - 1) |-> c]]
\* A grid that varies from cell to cell, not linearly, real and imaginary
RampGrid(k) ==
    [iz \in 0..(Nz - 1) |-> [ir \in 0..(Nr - 1) |->
        C(R(k + iz*iz + ir*iz + 2*ir), R(ir*ir - k*iz))]]

NoFields == [Er_m0 |-> ZeroGrid, Et_m0 |-> ZeroGrid, Ez_m0 |-> ZeroGrid,
             Er_m1 |-> ZeroGrid, Et_m1 |-> ZeroGrid, Ez_m1 |-> ZeroGrid,
             Br_m0 |-> ZeroGrid, Bt_m0 |-> ZeroGrid, Bz_m0 |-> ZeroGrid,
             Br_m1 |-> ZeroGrid, Bt_m1 |-> ZeroGrid, Bz_m1 |-> ZeroGrid]
\* Er of mode 0 uniformly c, every other component and mode 0
UniformEr(c) == [NoFields EXCEPT !.Er_m0 = UniformGrid(C(c, Zero))]
\* only the mode-0 grids populated
Mode0Fields == [NoFields EXCEPT !.Er_m0 = RampGrid(1), !.Et_m0 = RampGrid(2),
                                !.Ez_m0 = RampGrid(3), !.Br_m0 = RampGrid(4),
                                !.Bt_m0 = RampGrid(5), !.Bz_m0 = RampGrid(6)]
\* every grid populated
GeneralFields == [Mode0Fields EXCEPT !.Er_m1 = RampGrid(7), !.Et_m1 = RampGrid(8),
                                     !.Ez_m1 = RampGrid(9), !.Br_m1 = RampGrid(10),
                                     !.Bt_m1 = RampGrid(11), !.Bz_m1 = RampGrid(12)]
IsMode0Only(f) == /\ f.Er_m1 = ZeroGrid /\ f.Et_m1 = ZeroGrid /\ f.Ez_m1 = ZeroGrid
                  /\ f.Br_m1 = ZeroGrid /\ f.Bt_m1 = ZeroGrid /\ f.Bz_m1 = ZeroGrid

\* The value the caller's output arrays hold before the first call
Stale == R(7)
StaleArray == [i \in Particles |-> Stale]


\* The envelope arrays of the runs.  a, grad_a_r, grad_a_t and grad_a_z are
\* arrays of 2*Nm-1 grids: the modes 0..Nm-1 and then -(Nm-1)..-1.
\* One mode, a uniformly sqrt(3): the gathered intensity is 3 wherever the
\* applied weights sum to 1.
UniformEnv ==
    [a |-> <<UniformGrid(C(Sqrt3, Zero))>>,
     grad_a_r |-> <<RampGrid(1)>>, grad_a_t |-> <<RampGrid(2)>>,
     grad_a_z |-> <<RampGrid(3)>>,
     m_array |-> <<0>>]
\* The modes 0, 1 and -1, every grid populated
GeneralEnv ==
    [a        |-> <<RampGrid(1), RampGrid(2),  RampGrid(3)>>,
     grad_a_r |-> <<RampGrid(4), RampGrid(5),  RampGrid(6)>>,
     grad_a_t |-> <<RampGrid(7), RampGrid(8),  RampGrid(9)>>,
     grad_a_z |-> <<RampGrid(10), RampGrid(11), RampGrid(12)>>,
     m_array  |-> <<0, 1, -1>>]
EnvAll == {UniformEnv, GeneralEnv}

(***************************************************************************)
(* Calls of the gather routines                                            *)
(***************************************************************************)
Outputs == [Ex |-> Ex, Ey |-> Ey, Ez |-> Ez, Bx |-> Bx, By |-> By, Bz |-> Bz,
            a2 |-> a2, grad_a2_x |-> grad_a2_x, grad_a2_y |-> grad_a2_y,
            grad_a2_z |-> grad_a2_z]
Positions == [x |-> x, y |-> y, z |-> z]

\* Number of gather calls of a run
MaxCalls == 2

\* Entry of a gather routine: the history keeps what the previous call
\* was given and what it left behind.
Enter(name) ==
    /\ status # "running"
    /\ calls < MaxCalls
    /\ kernel' = name
    /\ status' = "running"
    /\ done'   = {}
    /\ loc'    = <<>>
    /\ calls'  = calls + 1
    /\ old'    = [pos |-> lastPos, out |-> Outputs, status |-> status,
                  kernel |-> kernel, nthreads |-> nthreads,
                  average_a2 |-> average_a2, gather_gradient |-> gather_gradient]
    /\ lastPos' = Positions
    /\ UNCHANGED <<boundaryVars, ionVars>>

\* The kernels without chunks have no threads of their own
NoThreads ==
    /\ nthreads' = 0 /\ ptcl_chunk_indices' = <<>>
    /\ ti' = <<>> /\ tpc' = <<>> /\ Sr' = <<>> /\ Sz' = <<>>

NoHistory == [pos |-> <<>>, out |-> <<>>, status |-> "idle", kernel |-> "none",
              nthreads |-> 0, average_a2 |-> FALSE, gather_gradient |-> FALSE]

\* No halo kernel is launched in the runs of the gather
InitNoLaunch ==
    /\ launched = "none" /\ ran = {} /\ rows = {}
    /\ grids = <<>> /\ buffer_l = <<>> /\ buffer_r = <<>>
    /\ copy_left = FALSE /\ copy_right = FALSE
    /\ nz_start = 0 /\ nz_end = 0
    /\ step = <<>> /\ reg = <<>> /\ wrote = <<>>

InitCalls ==
    /\ kernel = "none" /\ status = "idle" /\ done = {} /\ loc = <<>>
    /\ calls = 0 /\ lastPos = <<>> /\ old = NoHistory
    /\ nthreads = 0 /\ ptcl_chunk_indices = <<>>
    /\ ti = <<>> /\ tpc = <<>> /\ Sr = <<>> /\ Sz = <<>>
\* ionize_ions_numba is not called
InitNoIonization ==
    /\ N_batch = 0 /\ batch_size = 0 /\ Ntot = 0 /\ z_max = 0
    /\ neutral_weight = <<>> /\ n_ionized = <<>> /\ is_ionized = <<>>
    /\ ionization_level = <<>> /\ w = <<>>
    /\ i_batch = 0 /\ ip = 0 /\ ionizing = "none" /\ ionizations = 0
    /\ seen = <<>> /\ entry = <<>>

InitRun == InitCalls /\ InitNoLaunch /\ InitNoIonization

\* What the output arrays and the envelope inputs hold in the runs of the
\* electromagnetic gather alone
InitEnvIdle ==
    /\ env = GeneralEnv
    /\ a2 = StaleArray
    /\ grad_a2_x = StaleArray /\ grad_a2_y = StaleArray /\ grad_a2_z = StaleArray
    /\ gather_gradient = FALSE /\ average_a2 = FALSE
InitEMOutputs ==
    /\ Ex = StaleArray /\ Ey = StaleArray /\ Ez = StaleArray
    /\ Bx = StaleArray /\ By = StaleArray /\ Bz = StaleArray
\* The particle arrays hold, particle by particle, positions of the set P
InitPositions(P) ==
    \E p \in [Particles -> P] :
        /\ x = [i \in Particles |-> p[i][1]]
        /\ y = [i \in Particles |-> p[i][2]]
        /\ z = [i \in Particles |-> p[i][3]]

(***************************************************************************)
(* gather_field_numba_linear                                               *)
(***************************************************************************)
\* The marker of a local variable that was never assigned
Unset == <<"unset">>

\* The branch rj # 0: invr = 1./rj, cos = xj*invr, sin = yj*invr
OffAxis(xj, yj, rj, invr) ==
    [rj |-> rj, invr |-> invr, cos |-> RMul(xj, invr), sin |-> RMul(yj, invr)]

\* Faulty variant: no convention on the axis, cos and sin are the products by 0
ConversionAtNoConvention(xj, yj, rj) ==
    OffAxis(xj, yj, rj, IF rj # Zero THEN RInv(rj) ELSE Zero)

\* The conversion once rj is known.  invr is assigned, by the division
\* 1./rj, in the branch rj # 0 alone.
ConversionAt(xj, yj, rj) ==
    IF rj # Zero
    THEN OffAxis(xj, yj, rj, RInv(rj))
    ELSE [rj |-> rj, invr |-> Unset, cos |-> One, sin |-> Zero]

\* Cylindrical conversion: rj, cos, sin of a particle at (xj, yj)
CylindricalConversion(xj, yj) ==
    ConversionAt(xj, yj, Sqrt(RAdd(RPow2(xj), RPow2(yj))))

\* Position of the particle in the cell unit
CellPosition(inv, pos, min) == RSub(RMul(inv, RSub(pos, min)), Half)

\* Faulty variant: the clamp is off by one
AbsorbUpperRLoose(ir) == IF ir > Nr THEN Nr ELSE ir

\* Absorbing boundary in upper r, applied to one radial index
AbsorbUpperR(ir) == IF ir > Nr - 1 THEN Nr - 1 ELSE ir

\* Periodic boundaries in z, applied to one axial index: Nz is added once
\* to a negative index, and then subtracted once from one above Nz-1.
UpperZ(iz) == IF iz > Nz - 1 THEN iz - Nz ELSE iz
PeriodicZ(iz) == UpperZ(IF iz < 0 THEN iz + Nz ELSE iz)

\* The shape products, from the weights and indices after the treatment of
\* the boundary conditions
PrecalculateShapes(r_cell, z_cell, ir_lower, ir_upper, iz_lower, iz_upper, Sr_lower, Sr_upper, Sr_guard, Sz_lower, Sz_upper) ==
    [r_cell |-> r_cell, z_cell |-> z_cell,
     ir_lower |-> ir_lower, ir_upper |-> ir_upper,
     iz_lower |-> iz_lower, iz_upper |-> iz_upper,
     Sr_lower |-> Sr_lower, Sr_upper |-> Sr_upper, Sr_guard |-> Sr_guard,
     Sz_lower |-> Sz_lower, Sz_upper |-> Sz_upper,
     S_ll |-> RMul(Sz_lower, Sr_lower), S_lu |-> RMul(Sz_lower, Sr_upper),
     S_ul |-> RMul(Sz_upper, Sr_lower), S_uu |-> RMul(Sz_upper, Sr_upper),
     S_lg |-> RMul(Sz_lower, Sr_guard), S_ug |-> RMul(Sz_upper, Sr_guard)]

\* Faulty variant: below the axis the index becomes 0 but the lower weight
\* is kept, so that it is applied to cell 0
BoundaryConditionsKeepWeight(r_cell, z_cell, ir_lower, ir_upper, iz_lower, iz_upper, Sr_lower, Sr_upper, Sz_lower, Sz_upper) ==
    PrecalculateShapes(r_cell, z_cell,
        AbsorbUpperR(IF ir_lower < 0 THEN 0 ELSE ir_lower), AbsorbUpperR(ir_upper),
        PeriodicZ(iz_lower), PeriodicZ(iz_upper),
        Sr_lower, Sr_upper, Zero, Sz_lower, Sz_upper)

\* Guard cells in lower r (the weight of a negative lower index moves to
\* the guard weight, the index becomes 0), absorbing in upper r, periodic
\* in z
BoundaryConditions(r_cell, z_cell, ir_lower, ir_upper, iz_lower, iz_upper, Sr_lower, Sr_upper, Sz_lower, Sz_upper) ==
    PrecalculateShapes(r_cell, z_cell,
        AbsorbUpperR(IF ir_lower < 0 THEN 0 ELSE ir_lower), AbsorbUpperR(ir_upper),
        PeriodicZ(iz_lower), PeriodicZ(iz_upper),
        IF ir_lower < 0 THEN Zero ELSE Sr_lower, Sr_upper,
        IF ir_lower < 0 THEN Sr_lower ELSE Zero,
        Sz_lower, Sz_upper)

\* Faulty variant: the upper radial weight is measured from the upper index
LinearWeightsFromUpper(r_cell, z_cell, ir_lower, ir_upper, iz_lower, iz_upper) ==
    BoundaryConditions(r_cell, z_cell, ir_lower, ir_upper, iz_lower, iz_upper,
        RSub(R(ir_upper), r_cell), RSub(r_cell, R(ir_upper)),
        RSub(R(iz_upper), z_cell), RSub(z_cell, R(iz_lower)))

\* The linear weights of the original indices
LinearWeights(r_cell, z_cell, ir_lower, ir_upper, iz_lower, iz_upper) ==
    BoundaryConditions(r_cell, z_cell, ir_lower, ir_upper, iz_lower, iz_upper,
        RSub(R(ir_upper), r_cell), RSub(r_cell, R(ir_lower)),
        RSub(R(iz_upper), z_cell), RSub(z_cell, R(iz_lower)))

\* The original indices of the lower and upper cells
OriginalIndex(r_cell, z_cell) ==
    LinearWeights(r_cell, z_cell, Floor(r_cell), Floor(r_cell) + 1,
                                  Floor(z_cell), Floor(z_cell) + 1)

\* The linear weights and the stencil indices after the boundary treatment
LinearShape(rj, zj) ==
    OriginalIndex(CellPosition(invdr, rj, rmin), CellPosition(invdz, zj, zmin))

\* An index pair a 2d array of shape (Nz, Nr) can be read at
InGrid(iz, ir) == iz \in 0..(Nz - 1) /\ ir \in 0..(Nr - 1)
LinearStencilInGrid(S) == /\ InGrid(S.iz_lower, S.ir_lower)
                          /\ InGrid(S.iz_upper, S.ir_upper)

\* The sum over the four stencil points of weight * grid value.  The guard
\* weights S_lg, S_ug take no part in it.
LinearStencilSum(grid, S) ==
    CAdd(CAdd(CScale(S.S_ll, grid[S.iz_lower][S.ir_lower]),
              CScale(S.S_lu, grid[S.iz_lower][S.ir_upper])),
         CAdd(CScale(S.S_ul, grid[S.iz_upper][S.ir_lower]),
              CScale(S.S_uu, grid[S.iz_upper][S.ir_upper])))

\* One mode's contribution to the running (Fr, Ft, Fz): the real part of
\* phase factor * stencil sum, for each of the three components.
add_linear_gather_for_mode(m, F, exptheta_m, Fr_grid, Ft_grid, Fz_grid, S) ==
    <<RAdd(F[1], Re(CMul(exptheta_m, LinearStencilSum(Fr_grid, S)))),
      RAdd(F[2], Re(CMul(exptheta_m, LinearStencilSum(Ft_grid, S)))),
      RAdd(F[3], Re(CMul(exptheta_m, LinearStencilSum(Fz_grid, S))))>>

exptheta_m0 == COne
ExpTheta1(cos, sin) == C(cos, RNeg(sin))

\* Faulty variant: cos and sin exchanged
ToCartesianSwapped(cos, sin, F) ==
    <<RSub(RMul(sin, F[1]), RMul(cos, F[2])),
      RAdd(RMul(cos, F[1]), RMul(sin, F[2])),
      F[3]>>

\* Conversion of (Fr, Ft, Fz) to Cartesian coordinates
ToCartesian(cos, sin, F) ==
    <<RSub(RMul(cos, F[1]), RMul(sin, F[2])),
      RAdd(RMul(sin, F[1]), RMul(cos, F[2])),
      F[3]>>

\* Faulty variant: the phase factor of mode 1 applied to mode 0 as well
LinearModesOnePhase(cyl, S, r0, t0, z0, r1, t1, z1) ==
    add_linear_gather_for_mode(1,
        add_linear_gather_for_mode(0, <<Zero, Zero, Zero>>,
                                   ExpTheta1(cyl.cos, cyl.sin), r0, t0, z0, S),
        ExpTheta1(cyl.cos, cyl.sin), r1, t1, z1, S)

\* The cylindrical E (or B) gathered over the modes 0 and 1
LinearModes(cyl, S, r0, t0, z0, r1, t1, z1) ==
    add_linear_gather_for_mode(1,
        add_linear_gather_for_mode(0, <<Zero, Zero, Zero>>, exptheta_m0, r0, t0, z0, S),
        ExpTheta1(cyl.cos, cyl.sin), r1, t1, z1, S)

\* The local variables of the iteration of a particle at (xj, yj, zj),
\* up to the first read of a grid
LocalsAt(cyl, zj) == [cyl |-> cyl, S |-> LinearShape(cyl.rj, zj)]
LinearLocals(xj, yj, zj) == LocalsAt(CylindricalConversion(xj, yj), zj)

\* Faulty variant: B gathered from the grids of E
LinearFieldsCopied(f, L) ==
    [E |-> LinearModes(L.cyl, L.S, f.Er_m0, f.Et_m0, f.Ez_m0, f.Er_m1, f.Et_m1, f.Ez_m1),
     B |-> LinearModes(L.cyl, L.S, f.Er_m0, f.Et_m0, f.Ez_m0, f.Er_m1, f.Et_m1, f.Ez_m1)]

\* The cylindrical fields gathered by that iteration
LinearFields(f, L) ==
    [E |-> LinearModes(L.cyl, L.S, f.Er_m0, f.Et_m0, f.Ez_m0, f.Er_m1, f.Et_m1, f.Ez_m1),
     B |-> LinearModes(L.cyl, L.S, f.Br_m0, f.Bt_m0, f.Bz_m0, f.Br_m1, f.Bt_m1, f.Bz_m1)]

\* The particle positions the linear gather is run on: (x, y, z)
PosLinear ==
    { <<R(0),       R(0),     R(0)>>,       \* on the axis
      <<Q(3, 40),   Q(1, 10), Q(-1, 2)>>,   \* radial stencil straddles the axis
      <<Q(3, 20),   Q(1, 5),  Q(-1, 2)>>,   \* a cell centre (r_cell 0, z_cell 1)
      <<Q(1, 5),    Q(3, 20), Q(-1, 2)>>,   \* the same centre, another azimuth
      <<Q(-3, 10),  Q(2, 5),  R(0)>>,       \* inside a cell
      <<R(0),       Q(-1, 2), R(0)>>,       \* same r and z, another azimuth
      <<Q(9, 8),    Q(3, 2),  Q(3, 2)>>,    \* stencil straddles the outer edge
      <<Q(3, 2),    R(2),     R(-2)>>,      \* beyond the outer edge, lower z edge
      <<Q(3, 4),    R(1),     Q(5, 2)>>,    \* a cell centre of the periodic image
      <<Q(3, 5),    Q(4, 5),  R(7)>>,       \* two box lengths above the box
      <<Q(3, 5),    Q(4, 5),  Q(-13, 2)>> } \* more than a box length below it

FieldsLinear == {UniformEr(One), UniformEr(R(2)), Mode0Fields, GeneralFields}

\* Evaluation caches: the values of LinearLocals and LinearFields on the
\* inputs of the runs, computed once.
RECURSIVE LinearLocalsTable(_)
LinearLocalsTable(S) ==
    IF S = {} THEN <<>>
    ELSE LET p == CHOOSE p \in S : TRUE
         IN  (p :> LinearLocals(p[1], p[2], p[3])) @@ LinearLocalsTable(S \ {p})
LinearLocalsCache == LinearLocalsTable(PosLinear)
FieldsOrUnset(f, L) ==
    IF LinearStencilInGrid(L.S) THEN LinearFields(f, L) ELSE Unset
RECURSIVE LinearFieldsTable(_)
LinearFieldsTable(S) ==
    IF S = {} THEN <<>>
    ELSE LET fp == CHOOSE fp \in S : TRUE
         IN  (fp :> FieldsOrUnset(fp[1], LinearLocalsCache[fp[2]]))
             @@ LinearFieldsTable(S \ {fp})
LinearFieldsCache == LinearFieldsTable(FieldsLinear \X PosLinear)
LocalsOf(xj, yj, zj) ==
    IF <<xj, yj, zj>> \in PosLinear THEN LinearLocalsCache[<<xj, yj, zj>>]
    ELSE LinearLocals(xj, yj, zj)
FieldsOf(f, xj, yj, zj, L) ==
    IF f \in FieldsLinear /\ <<xj, yj, zj>> \in PosLinear
    THEN LinearFieldsCache[<<f, <<xj, yj, zj>>>>]
    ELSE LinearFields(f, L)


StartLinear ==
    /\ status = "idle"
    /\ Enter("linear") /\ NoThreads
    /\ UNCHANGED <<emVars, envVars>>

\* The writes of an iteration: the six outputs of particle i
LinearWrite(i, L, F, E, B) ==
    /\ Ex' = [Ex EXCEPT ![i] = E[1]]
    /\ Ey' = [Ey EXCEPT ![i] = E[2]]
    /\ Ez' = [Ez EXCEPT ![i] = E[3]]
    /\ Bx' = [Bx EXCEPT ![i] = B[1]]
    /\ By' = [By EXCEPT ![i] = B[2]]
    /\ Bz' = [Bz EXCEPT ![i] = B[3]]
    /\ loc' = (i :> [cyl |-> L.cyl, S |-> L.S, F |-> F]) @@ loc
    /\ done' = done \cup {i}
    /\ UNCHANGED status

\* Faulty variant: an iteration whose stencil leaves the grid goes on and
\* writes the particle's outputs
LinearIterFromTolerant(i, xj, yj, zj, L, F) ==
    IF LinearStencilInGrid(L.S)
    THEN LinearWrite(i, L, F, ToCartesian(L.cyl.cos, L.cyl.sin, F.E),
                              ToCartesian(L.cyl.cos, L.cyl.sin, F.B))
    ELSE LinearWrite(i, L, Unset, <<Zero, Zero, Zero>>, <<Zero, Zero, Zero>>)

\* The iteration from the locals L on.  A stencil index outside the grid
\* ends the call before anything is written for the particle.
LinearIterFrom(i, xj, yj, zj, L, F) ==
    IF LinearStencilInGrid(L.S)
    THEN LinearWrite(i, L, F, ToCartesian(L.cyl.cos, L.cyl.sin, F.E),
                              ToCartesian(L.cyl.cos, L.cyl.sin, F.B))
    ELSE /\ status' = "failed"
         /\ loc' = (i :> [cyl |-> L.cyl, S |-> L.S, F |-> Unset]) @@ loc
         /\ UNCHANGED <<Ex, Ey, Ez, Bx, By, Bz, done>>
LinearIterWith(i, xj, yj, zj, L) ==
    LinearIterFrom(i, xj, yj, zj, L, FieldsOf(fields, xj, yj, zj, L))

\* One iteration of the prange loop over the particles, for the particle i
\* read at (xj, yj, zj)
LinearIterAt(i, xj, yj, zj) == LinearIterWith(i, xj, yj, zj, LocalsOf(xj, yj, zj))

\* Faulty variant: the iteration of particle i reads the axial position of its
\* neighbour in the array
LinearIterNeighbour(i) ==
    /\ kernel = "linear" /\ status = "running"
    /\ i \notin DOMAIN loc
    /\ LinearIterAt(i, x[i], y[i], z[(i + 1) % Np])
    /\ UNCHANGED <<ionVars, boundaryVars, x, y, z, fields, envVars, thrVars, kernel, calls, lastPos, old>>

LinearIter(i) ==
    /\ kernel = "linear" /\ status = "running"
    /\ i \notin DOMAIN loc
    /\ LinearIterAt(i, x[i], y[i], z[i])
    /\ UNCHANGED <<ionVars, boundaryVars, x, y, z, fields, envVars, thrVars, kernel, calls, lastPos, old>>

LinearReturn ==
    /\ kernel = "linear" /\ status = "running"
    /\ done = Particles
    /\ status' = "done"
    /\ UNCHANGED <<ionVars, boundaryVars, emVars, envVars, thrVars, kernel, done, loc, calls, lastPos, old>>


\* A later call of the linear gather on the same arrays
LinearAgain ==
    /\ kernel = "linear" /\ status = "done"
    /\ Enter("linear") /\ NoThreads
    /\ UNCHANGED <<emVars, envVars>>

\* Between two calls the caller moves particle j to the position p
Push(j, p) ==
    /\ status = "done"
    /\ calls < MaxCalls
    /\ <<x[j], y[j], z[j]>> # p
    /\ x' = [x EXCEPT ![j] = p[1]]
    /\ y' = [y EXCEPT ![j] = p[2]]
    /\ z' = [z EXCEPT ![j] = p[3]]
    /\ UNCHANGED <<ionVars, boundaryVars, fields, Ex, Ey, Ez, Bx, By, Bz, envVars, thrVars, runVars>>

(***************************************************************************)
(* gather_envelope_field_numba_linear                                      *)
(***************************************************************************)
\* arr[m] for a signed mode index m: a negative index counts from the end
\* of the array (arrays of the model are indexed from 1)
ModeGrid(arr, m) == arr[(IF m < 0 THEN m + Len(arr) ELSE m) + 1]

\* The complex factor of mode m: (cos - i sin)^|m|, conjugated when m < 0
\* Faulty variant: the factor of a negative mode is not conjugated
ConjugateNever(m, exptheta_m) == exptheta_m
ConjugateIfNegative(m, exptheta_m) ==
    IF m < 0 THEN CConj(exptheta_m) ELSE exptheta_m
EnvelopePhase(cos, sin, m) ==
    ConjugateIfNegative(m, CPow(C(cos, RNeg(sin)), Abs(m)))

\* One mode's contribution to the running complex amplitude
add_linear_envelope_gather_for_mode(m, F, exptheta_m, a_m, S) ==
    CAdd(F, CMul(exptheta_m, LinearStencilSum(a_m, S)))

\* The amplitude gathered from the array arr after the first it modes of
\* m_array, in the order of m_array
RECURSIVE LinearEnvelopeModes(_, _, _, _, _)
LinearEnvelopeModes(arr, marr, it, cyl, S) ==
    IF it = 0 THEN CZero
    ELSE add_linear_envelope_gather_for_mode(marr[it],
             LinearEnvelopeModes(arr, marr, it - 1, cyl, S),
             EnvelopePhase(cyl.cos, cyl.sin, marr[it]),
             ModeGrid(arr, marr[it]), S)

\* The complex F and (Fr, Ft, Fz) of an iteration after the loop over the
\* modes; Fr, Ft, Fz are assigned only when the gradient is gathered
LinearEnvelopeFields(e, L, gg) ==
    [F |-> LinearEnvelopeModes(e.a, e.m_array, Len(e.m_array), L.cyl, L.S),
     G |-> IF gg
           THEN <<LinearEnvelopeModes(e.grad_a_r, e.m_array, Len(e.m_array), L.cyl, L.S),
                  LinearEnvelopeModes(e.grad_a_t, e.m_array, Len(e.m_array), L.cyl, L.S),
                  LinearEnvelopeModes(e.grad_a_z, e.m_array, Len(e.m_array), L.cyl, L.S)>>
           ELSE Unset]

\* Conversion of the gradient to Cartesian coordinates and to grad a^2:
\* 2 * Re(component * conj(F)) for each of Fx, Fy, Fz
GradientA2(Fx, Fy, Fz, F) ==
    <<RMul(R(2), Re(CMul(Fx, CConj(F)))),
      RMul(R(2), Re(CMul(Fy, CConj(F)))),
      RMul(R(2), Re(CMul(Fz, CConj(F))))>>
EnvelopeGradient(cos, sin, F, G) ==
    GradientA2(CAdd(CScale(cos, G[1]), CScale(RNeg(sin), G[2])),
               CAdd(CScale(sin, G[1]), CScale(cos, G[2])),
               G[3], F)

\* Conversion of a to a^2: the real part of F * conj(F)
EnvelopeIntensity(F) == Re(CMul(F, CConj(F)))

\* Faulty variant: the sum of the two values, not their mean
RegisterA2NoHalf(stored, intensity, avg) ==
    IF avg THEN RAdd(stored, intensity) ELSE intensity
\* Faulty variant: half the difference of the two values
RegisterA2Difference(stored, intensity, avg) ==
    IF avg THEN RMul(Half, RSub(stored, intensity)) ELSE intensity
\* Faulty variant: the mean, whatever the flag
RegisterA2AlwaysAverage(stored, intensity, avg) ==
    RMul(Half, RAdd(stored, intensity))

\* The value registered in a2[i]: averaged with the value the array holds,
\* or the gathered value alone
RegisterA2(stored, intensity, avg) ==
    IF avg THEN RMul(Half, RAdd(stored, intensity)) ELSE intensity

EnvelopeOrUnset(e, L, gg) ==
    IF LinearStencilInGrid(L.S) THEN LinearEnvelopeFields(e, L, gg) ELSE Unset
RECURSIVE LinearEnvelopeTable(_)
LinearEnvelopeTable(S) ==
    IF S = {} THEN <<>>
    ELSE LET ep == CHOOSE ep \in S : TRUE
         IN  (ep :> EnvelopeOrUnset(ep[1], LinearLocalsCache[ep[2]], ep[3]))
             @@ LinearEnvelopeTable(S \ {ep})
LinearEnvelopeCache == LinearEnvelopeTable(EnvAll \X PosLinear \X BOOLEAN)
EnvelopeFieldsOf(e, xj, yj, zj, L, gg) ==
    IF e \in EnvAll /\ <<xj, yj, zj>> \in PosLinear
    THEN LinearEnvelopeCache[<<e, <<xj, yj, zj>>, gg>>]
    ELSE LinearEnvelopeFields(e, L, gg)

\* Entry of an envelope kernel with its two flags
EnterEnvelope(gg, avg) ==
    /\ gather_gradient' = gg
    /\ average_a2' = avg
    /\ UNCHANGED <<emVars, env, a2, grad_a2_x, grad_a2_y, grad_a2_z>>

StartEnvLinear(gg, avg) ==
    /\ status = "idle"
    /\ Enter("env_linear") /\ NoThreads
    /\ EnterEnvelope(gg, avg)

\* A later call of an envelope kernel on the same arrays
EnvLinearAgain(gg, avg) ==
    /\ kernel \in {"env_linear", "env_cubic"} /\ status = "done"
    /\ Enter("env_linear") /\ NoThreads
    /\ EnterEnvelope(gg, avg)

\* Register in the particle arrays: the gradient when it is gathered, and
\* a2.  cyl is the conversion and S the shape (four weights of the cubic
\* kernel, or the record of the linear one) of the iteration.
RegisterGradient(i, grad) ==
    /\ grad_a2_x' = [grad_a2_x EXCEPT ![i] = grad[1]]
    /\ grad_a2_y' = [grad_a2_y EXCEPT ![i] = grad[2]]
    /\ grad_a2_z' = [grad_a2_z EXCEPT ![i] = grad[3]]
\* Faulty variant: a call that does not gather the gradient clears it
RegisterClearing(i, cyl, FG) ==
    /\ IF gather_gradient
       THEN RegisterGradient(i, EnvelopeGradient(cyl.cos, cyl.sin, FG.F, FG.G))
       ELSE RegisterGradient(i, <<Zero, Zero, Zero>>)
    /\ a2' = [a2 EXCEPT ![i] = RegisterA2(a2[i], EnvelopeIntensity(FG.F), average_a2)]
Register(i, cyl, FG) ==
    /\ IF gather_gradient
       THEN RegisterGradient(i, EnvelopeGradient(cyl.cos, cyl.sin, FG.F, FG.G))
       ELSE UNCHANGED <<grad_a2_x, grad_a2_y, grad_a2_z>>
    /\ a2' = [a2 EXCEPT ![i] = RegisterA2(a2[i], EnvelopeIntensity(FG.F), average_a2)]

\* One iteration of the loop over the particles, which runs in the order
\* of the particle index
EnvLinearIterWith(i, xj, yj, zj, L, FG) ==
    IF LinearStencilInGrid(L.S)
    THEN /\ Register(i, L.cyl, FG)
         /\ loc' = (i :> [cyl |-> L.cyl, S |-> L.S, F |-> FG.F, G |-> FG.G]) @@ loc
         /\ done' = done \cup {i}
         /\ UNCHANGED status
    ELSE /\ status' = "failed"
         /\ loc' = (i :> [cyl |-> L.cyl, S |-> L.S, F |-> Unset, G |-> Unset]) @@ loc
         /\ UNCHANGED <<a2, grad_a2_x, grad_a2_y, grad_a2_z, done>>
EnvLinearIterFrom(i, xj, yj, zj, L) ==
    EnvLinearIterWith(i, xj, yj, zj, L,
                      EnvelopeFieldsOf(env, xj, yj, zj, L, gather_gradient))
EnvLinearIterAt(i, xj, yj, zj) ==
    EnvLinearIterFrom(i, xj, yj, zj, LocalsOf(xj, yj, zj))

EnvLinearIter ==
    /\ kernel = "env_linear" /\ status = "running"
    /\ done # Particles
    /\ LET i == Cardinality(done)
       IN  EnvLinearIterAt(i, x[i], y[i], z[i])
    /\ UNCHANGED <<ionVars, boundaryVars, emVars, thrVars, env, gather_gradient, average_a2, kernel,
                   calls, lastPos, old>>

EnvLinearReturn ==
    /\ kernel = "env_linear" /\ status = "running"
    /\ done = Particles
    /\ status' = "done"
    /\ UNCHANGED <<ionVars, boundaryVars, emVars, envVars, thrVars, kernel, done, loc, calls, lastPos, old>>

(***************************************************************************)
(* gather_field_numba_cubic                                                *)
(***************************************************************************)
Sixth == <<1, 0, 6>>
MinusSixth == <<-1, 0, 6>>
\* Faulty variant: the second factor ends in + 3. instead of + 4.
CubicShapeThree(c_local) ==
    <<RMul(MinusSixth, RPow3(RSub(c_local, R(2)))),
      RMul(Sixth, RAdd(RSub(RMul(R(3), RPow3(RSub(c_local, One))),
                            RMul(R(6), RPow2(RSub(c_local, One)))), R(3))),
      RMul(Sixth, RAdd(RSub(RMul(R(3), RPow3(RSub(R(2), c_local))),
                            RMul(R(6), RPow2(RSub(R(2), c_local)))), R(4))),
      RMul(MinusSixth, RPow3(RSub(One, c_local)))>>
\* The four cubic shape factors of the local coordinate c_local
CubicShape(c_local) ==
    <<RMul(MinusSixth, RPow3(RSub(c_local, R(2)))),
      RMul(Sixth, RAdd(RSub(RMul(R(3), RPow3(RSub(c_local, One))),
                            RMul(R(6), RPow2(RSub(c_local, One)))), R(4))),
      RMul(Sixth, RAdd(RSub(RMul(R(3), RPow3(RSub(R(2), c_local))),
                            RMul(R(6), RPow2(RSub(R(2), c_local)))), R(4))),
      RMul(MinusSixth, RPow3(RSub(One, c_local)))>>

\* The lowest stencil index and the shape factors along one axis
AxisFrom(c_cell, lowest) ==
    [lowest |-> lowest, S |-> CubicShape(RSub(c_cell, R(lowest)))]
CubicAxis(c_cell) == AxisFrom(c_cell, Floor(c_cell) - 1)

\* The local variables of an iteration and the weights it stores in the
\* arrays Sr and Sz of its thread
CubicLocalsFrom(cyl, r_cell, z_cell, ar, az) ==
    [cyl |-> cyl, r_cell |-> r_cell, z_cell |-> z_cell,
     ir_lowest |-> ar.lowest, iz_lowest |-> az.lowest,
     Sr |-> ar.S, Sz |-> az.S]
CubicLocalsIn(cyl, r_cell, z_cell) ==
    CubicLocalsFrom(cyl, r_cell, z_cell, CubicAxis(r_cell), CubicAxis(z_cell))
CubicLocalsAt(cyl, zj) ==
    CubicLocalsIn(cyl, CellPosition(invdr, cyl.rj, rmin), CellPosition(invdz, zj, zmin))
CubicLocals(xj, yj, zj) == CubicLocalsAt(CylindricalConversion(xj, yj), zj)

\* The 4 x 4 stencil lies in the grid: the cubic gather applies no boundary
\* treatment and reads the grid at the indices as they are
CubicStencilInGrid(ir_lowest, iz_lowest) ==
    /\ InGrid(iz_lowest, ir_lowest)
    /\ InGrid(iz_lowest + 3, ir_lowest + 3)

\* The sum over the 16 stencil points of Sz * Sr * grid value, one axial
\* index after the other
CubicRowSum(grid, iz, ir_lowest, sr) ==
    CAdd(CAdd(CScale(sr[1], grid[iz][ir_lowest]),
              CScale(sr[2], grid[iz][ir_lowest + 1])),
         CAdd(CScale(sr[3], grid[iz][ir_lowest + 2]),
              CScale(sr[4], grid[iz][ir_lowest + 3])))
CubicStencilSum(grid, ir_lowest, iz_lowest, sr, sz) ==
    CAdd(CAdd(CScale(sz[1], CubicRowSum(grid, iz_lowest, ir_lowest, sr)),
              CScale(sz[2], CubicRowSum(grid, iz_lowest + 1, ir_lowest, sr))),
         CAdd(CScale(sz[3], CubicRowSum(grid, iz_lowest + 2, ir_lowest, sr)),
              CScale(sz[4], CubicRowSum(grid, iz_lowest + 3, ir_lowest, sr))))

\* One mode's contribution to the running (Fr, Ft, Fz) of the cubic gather
add_cubic_gather_for_mode(m, F, exptheta_m, Fr_grid, Ft_grid, Fz_grid, ir_lowest, iz_lowest, sr, sz) ==
    <<RAdd(F[1], Re(CMul(exptheta_m,
                         CubicStencilSum(Fr_grid, ir_lowest, iz_lowest, sr, sz)))),
      RAdd(F[2], Re(CMul(exptheta_m,
                         CubicStencilSum(Ft_grid, ir_lowest, iz_lowest, sr, sz)))),
      RAdd(F[3], Re(CMul(exptheta_m,
                         CubicStencilSum(Fz_grid, ir_lowest, iz_lowest, sr, sz))))>>

CubicModes(cyl, ir_lowest, iz_lowest, sr, sz, r0, t0, z0, r1, t1, z1) ==
    add_cubic_gather_for_mode(1,
        add_cubic_gather_for_mode(0, <<Zero, Zero, Zero>>, exptheta_m0, r0, t0, z0,
                                  ir_lowest, iz_lowest, sr, sz),
        ExpTheta1(cyl.cos, cyl.sin), r1, t1, z1, ir_lowest, iz_lowest, sr, sz)

\* The cylindrical E and B an iteration gathers with the weights sr, sz
CubicFields(f, cyl, ir_lowest, iz_lowest, sr, sz) ==
    [E |-> CubicModes(cyl, ir_lowest, iz_lowest, sr, sz,
                      f.Er_m0, f.Et_m0, f.Ez_m0, f.Er_m1, f.Et_m1, f.Ez_m1),
     B |-> CubicModes(cyl, ir_lowest, iz_lowest, sr, sz,
                      f.Br_m0, f.Bt_m0, f.Bz_m0, f.Br_m1, f.Bt_m1, f.Bz_m1)]

\* The particle positions the cubic gathers are run on.  On the 4 x 4 grid
\* the stencil lies in the grid for floor(r_cell) = floor(z_cell) = 1.
PosCubic ==
    { <<Q(9, 20), Q(3, 5),  Q(-1, 2)>>,   \* r_cell 1, z_cell 1
      <<Q(3, 5),  Q(4, 5),  R(0)>>,       \* r_cell 3/2, z_cell 3/2
      <<R(-1),    R(0),     Q(1, 4)>>,    \* r_cell 3/2, z_cell 7/4
      <<R(0),     R(0),     R(0)>> }      \* on the axis: stencil below r = 0
FieldsCubic == {Mode0Fields, GeneralFields}

\* Evaluation caches, as for the linear gather
RECURSIVE CubicLocalsTable(_)
CubicLocalsTable(S) ==
    IF S = {} THEN <<>>
    ELSE LET p == CHOOSE p \in S : TRUE
         IN  (p :> CubicLocals(p[1], p[2], p[3])) @@ CubicLocalsTable(S \ {p})
CubicLocalsCache == CubicLocalsTable(PosCubic \cup PosLinear)
CubicLocalsOf(xj, yj, zj) ==
    IF <<xj, yj, zj>> \in DOMAIN CubicLocalsCache
    THEN CubicLocalsCache[<<xj, yj, zj>>]
    ELSE CubicLocals(xj, yj, zj)
CubicFieldsEntry(f, L) ==
    <<f, L.cyl, L.ir_lowest, L.iz_lowest, L.Sr, L.Sz>> :>
        IF CubicStencilInGrid(L.ir_lowest, L.iz_lowest)
        THEN CubicFields(f, L.cyl, L.ir_lowest, L.iz_lowest, L.Sr, L.Sz)
        ELSE Unset
RECURSIVE CubicFieldsTable(_)
CubicFieldsTable(S) ==
    IF S = {} THEN <<>>
    ELSE LET fp == CHOOSE fp \in S : TRUE
         IN  CubicFieldsEntry(fp[1], CubicLocalsCache[fp[2]])
             @@ CubicFieldsTable(S \ {fp})
CubicFieldsCache == CubicFieldsTable(FieldsCubic \X PosCubic)
CubicFieldsOf(f, cyl, ir_lowest, iz_lowest, sr, sz) ==
    IF <<f, cyl, ir_lowest, iz_lowest, sr, sz>> \in DOMAIN CubicFieldsCache
    THEN CubicFieldsCache[<<f, cyl, ir_lowest, iz_lowest, sr, sz>>]
    ELSE CubicFields(f, cyl, ir_lowest, iz_lowest, sr, sz)

\* Number of threads of a call
MaxThreads == 2
Threads == 0..(nthreads - 1)

\* The arrays of nt+1 non-decreasing indices from 0 to Np
ChunkIndices(nt) ==
    { c \in [0..nt -> 0..Np] :
        /\ c[0] = 0 /\ c[nt] = Np
        /\ \A k \in 0..(nt - 1) : c[k] <= c[k + 1] }

\* Faulty variant: every thread starts at particle 0 and runs to the end of
\* its chunk
EnterCubicFromZero(name, nt, chunks) ==
    /\ Enter(name)
    /\ nthreads' = nt
    /\ ptcl_chunk_indices' = chunks
    /\ ti'  = [t \in 0..(nt - 1) |-> 0]
    /\ tpc' = [t \in 0..(nt - 1) |-> "shape"]
    /\ Sr'  = [t \in 0..(nt - 1) |-> Unset]
    /\ Sz'  = [t \in 0..(nt - 1) |-> Unset]

\* Entry of a cubic kernel: every thread of the prange loop starts at the
\* first index of its chunk, with two fresh arrays np.empty(4)
EnterCubic(name, nt, chunks) ==
    /\ Enter(name)
    /\ nthreads' = nt
    /\ ptcl_chunk_indices' = chunks
    /\ ti'  = [t \in 0..(nt - 1) |-> chunks[t]]
    /\ tpc' = [t \in 0..(nt - 1) |-> "shape"]
    /\ Sr'  = [t \in 0..(nt - 1) |-> Unset]
    /\ Sz'  = [t \in 0..(nt - 1) |-> Unset]

StartCubic(nt, chunks) ==
    /\ status = "idle"
    /\ EnterCubic("cubic", nt, chunks)
    /\ UNCHANGED <<emVars, envVars>>

\* A later call on the same arrays, with a chunking of its own
CubicAgain(nt, chunks) ==
    /\ kernel = "cubic" /\ status = "done"
    /\ EnterCubic("cubic", nt, chunks)
    /\ UNCHANGED <<emVars, envVars>>

\* Faulty variant: one pair of arrays Sr, Sz shared by all the threads
ScratchShared(t) == 0
\* The arrays Sr and Sz thread t writes and reads: its own
ScratchOf(t) == t

\* The threads of gather_field_numba_cubic (njit_parallel) run in any
\* interleaving.  gather_envelope_field_numba_cubic is compiled by numba.njit
\* without the parallel option: its prange loop is a range loop, and chunk t
\* is begun when the chunks before it are finished.
Turn(t) ==
    kernel = "env_cubic" => \A u \in 0..(t - 1) : ti[u] = ptcl_chunk_indices[u + 1]

\* The shape factors of particle i stored in the arrays of thread t
StoreShape(t, i, L) ==
    /\ Sr' = [Sr EXCEPT ![ScratchOf(t)] = L.Sr]
    /\ Sz' = [Sz EXCEPT ![ScratchOf(t)] = L.Sz]
    /\ loc' = (i :> [cyl |-> L.cyl, r_cell |-> L.r_cell, z_cell |-> L.z_cell,
                     ir_lowest |-> L.ir_lowest, iz_lowest |-> L.iz_lowest])
              @@ loc

\* First half of an iteration of thread t: the cylindrical conversion and
\* the shape factors, stored in the arrays of the thread
CubicShapeStep(t) ==
    /\ status = "running" /\ kernel \in {"cubic", "env_cubic"}
    /\ t \in Threads
    /\ tpc[t] = "shape"
    /\ Turn(t)
    /\ ti[t] < ptcl_chunk_indices[t + 1]
    /\ StoreShape(t, ti[t], CubicLocalsOf(x[ti[t]], y[ti[t]], z[ti[t]]))
    /\ tpc' = [tpc EXCEPT ![t] = "gather"]
    /\ UNCHANGED <<ionVars, boundaryVars, emVars, envVars, nthreads, ptcl_chunk_indices, ti, kernel,
                   status, done, calls, lastPos, old>>

\* The six writes of an iteration of thread t, which moves on to the next
\* particle of its chunk
CubicWrite(t, i, E, B) ==
    /\ Ex' = [Ex EXCEPT ![i] = E[1]]
    /\ Ey' = [Ey EXCEPT ![i] = E[2]]
    /\ Ez' = [Ez EXCEPT ![i] = E[3]]
    /\ Bx' = [Bx EXCEPT ![i] = B[1]]
    /\ By' = [By EXCEPT ![i] = B[2]]
    /\ Bz' = [Bz EXCEPT ![i] = B[3]]
    /\ done' = done \cup {i}
    /\ ti' = [ti EXCEPT ![t] = i + 1]
    /\ tpc' = [tpc EXCEPT ![t] = "shape"]
    /\ UNCHANGED status
CubicConvert(t, i, L, F) ==
    CubicWrite(t, i, ToCartesian(L.cyl.cos, L.cyl.sin, F.E),
                     ToCartesian(L.cyl.cos, L.cyl.sin, F.B))
CubicGatherAt(t, i, L) ==
    IF CubicStencilInGrid(L.ir_lowest, L.iz_lowest)
    THEN CubicConvert(t, i, L,
             CubicFieldsOf(fields, L.cyl, L.ir_lowest, L.iz_lowest,
                           Sr[ScratchOf(t)], Sz[ScratchOf(t)]))
    ELSE /\ status' = "failed"
         /\ UNCHANGED <<Ex, Ey, Ez, Bx, By, Bz, done, ti, tpc>>

\* Second half: the gather with the weights the arrays of the thread hold,
\* and the six writes.  A stencil outside the grid ends the call.
CubicGatherStep(t) ==
    /\ status = "running" /\ kernel = "cubic"
    /\ t \in Threads
    /\ tpc[t] = "gather"
    /\ CubicGatherAt(t, ti[t], loc[ti[t]])
    /\ UNCHANGED <<ionVars, boundaryVars, x, y, z, fields, envVars, nthreads, ptcl_chunk_indices, Sr, Sz,
                   loc, kernel, calls, lastPos, old>>

\* The prange loop ends when every thread has run through its chunk
CubicReturn ==
    /\ status = "running" /\ kernel \in {"cubic", "env_cubic"}
    /\ \A t \in Threads : ti[t] = ptcl_chunk_indices[t + 1]
    /\ status' = "done"
    /\ UNCHANGED <<ionVars, boundaryVars, emVars, envVars, thrVars, kernel, done, loc, calls, lastPos, old>>

(***************************************************************************)
(* gather_envelope_field_numba_cubic                                       *)
(***************************************************************************)
\* One mode's contribution to the running complex amplitude
add_cubic_envelope_gather_for_mode(m, F, exptheta_m, a_m, ir_lowest, iz_lowest, sr, sz) ==
    CAdd(F, CMul(exptheta_m, CubicStencilSum(a_m, ir_lowest, iz_lowest, sr, sz)))

RECURSIVE CubicEnvelopeModes(_, _, _, _, _, _, _, _)
CubicEnvelopeModes(arr, marr, it, cyl, ir_lowest, iz_lowest, sr, sz) ==
    IF it = 0 THEN CZero
    ELSE add_cubic_envelope_gather_for_mode(marr[it],
             CubicEnvelopeModes(arr, marr, it - 1, cyl, ir_lowest, iz_lowest, sr, sz),
             EnvelopePhase(cyl.cos, cyl.sin, marr[it]),
             ModeGrid(arr, marr[it]), ir_lowest, iz_lowest, sr, sz)

CubicEnvelopeFields(e, cyl, ir_lowest, iz_lowest, sr, sz, gg) ==
    [F |-> CubicEnvelopeModes(e.a, e.m_array, Len(e.m_array), cyl,
                              ir_lowest, iz_lowest, sr, sz),
     G |-> IF gg
           THEN <<CubicEnvelopeModes(e.grad_a_r, e.m_array, Len(e.m_array), cyl,
                                     ir_lowest, iz_lowest, sr, sz),
                  CubicEnvelopeModes(e.grad_a_t, e.m_array, Len(e.m_array), cyl,
                                     ir_lowest, iz_lowest, sr, sz),
                  CubicEnvelopeModes(e.grad_a_z, e.m_array, Len(e.m_array), cyl,
                                     ir_lowest, iz_lowest, sr, sz)>>
           ELSE Unset]

CubicEnvelopeEntry(e, L, gg) ==
    <<e, L.cyl, L.ir_lowest, L.iz_lowest, L.Sr, L.Sz, gg>> :>
        IF CubicStencilInGrid(L.ir_lowest, L.iz_lowest)
        THEN CubicEnvelopeFields(e, L.cyl, L.ir_lowest, L.iz_lowest, L.Sr, L.Sz, gg)
        ELSE Unset
RECURSIVE CubicEnvelopeTable(_)
CubicEnvelopeTable(S) ==
    IF S = {} THEN <<>>
    ELSE LET ep == CHOOSE ep \in S : TRUE
         IN  CubicEnvelopeEntry(ep[1], CubicLocalsCache[ep[2]], ep[3])
             @@ CubicEnvelopeTable(S \ {ep})
CubicEnvelopeCache == CubicEnvelopeTable(EnvAll \X PosCubic \X BOOLEAN)
CubicEnvelopeFieldsOf(e, cyl, ir_lowest, iz_lowest, sr, sz, gg) ==
    IF <<e, cyl, ir_lowest, iz_lowest, sr, sz, gg>> \in DOMAIN CubicEnvelopeCache
    THEN CubicEnvelopeCache[<<e, cyl, ir_lowest, iz_lowest, sr, sz, gg>>]
    ELSE CubicEnvelopeFields(e, cyl, ir_lowest, iz_lowest, sr, sz, gg)

StartEnvCubic(nt, chunks, gg, avg) ==
    /\ status = "idle"
    /\ EnterCubic("env_cubic", nt, chunks)
    /\ EnterEnvelope(gg, avg)

EnvCubicAgain(nt, chunks, gg, avg) ==
    /\ kernel \in {"env_linear", "env_cubic"} /\ status = "done"
    /\ EnterCubic("env_cubic", nt, chunks)
    /\ EnterEnvelope(gg, avg)

\* The writes of an iteration of chunk t to the particle arrays
EnvCubicRegister(t, i, L, FG) ==
    /\ Register(i, L.cyl, FG)
    /\ loc' = [loc EXCEPT ![i] =
                  [cyl |-> L.cyl, r_cell |-> L.r_cell, z_cell |-> L.z_cell,
                   ir_lowest |-> L.ir_lowest, iz_lowest |-> L.iz_lowest,
                   F |-> FG.F, G |-> FG.G]]
    /\ done' = done \cup {i}
    /\ ti' = [ti EXCEPT ![t] = i + 1]
    /\ tpc' = [tpc EXCEPT ![t] = "shape"]
    /\ UNCHANGED status
EnvCubicGatherAt(t, i, L) ==
    IF CubicStencilInGrid(L.ir_lowest, L.iz_lowest)
    THEN EnvCubicRegister(t, i, L,
             CubicEnvelopeFieldsOf(env, L.cyl, L.ir_lowest, L.iz_lowest,
                                   Sr[ScratchOf(t)], Sz[ScratchOf(t)], gather_gradient))
    ELSE /\ status' = "failed"
         /\ UNCHANGED <<a2, grad_a2_x, grad_a2_y, grad_a2_z, loc, done, ti, tpc>>

\* Second half of an iteration of chunk t: the gather over the modes of
\* m_array and the writes to the particle arrays
EnvCubicGatherStep(t) ==
    /\ status = "running" /\ kernel = "env_cubic"
    /\ t \in Threads
    /\ tpc[t] = "gather"
    /\ EnvCubicGatherAt(t, ti[t], loc[ti[t]])
    /\ UNCHANGED <<ionVars, boundaryVars, emVars, env, gather_gradient, average_a2, nthreads,
                   ptcl_chunk_indices, Sr, Sz, kernel, calls, lastPos, old>>

(***************************************************************************)
(* boundaries/cuda_methods.py: copy_vec_to_gpu_buffer and                  *)
(* copy_scal_to_gpu_buffer                                                 *)
(***************************************************************************)
\* Nz, Nr = grid_0_r.shape: the shape of the grids of the launches
HNz == 3
HNr == 2
\* The number of grids of a kernel: six components of a vector field in
\* the modes 0 and 1, or the two modes of a scalar field
NGrids(name) == IF name \in {"copy_vec", "replace_vec", "add_vec"} THEN 6 ELSE 2

\* The grids of a launch, every cell with a value of its own
HaloGrids(K) ==
    [k \in 0..(K - 1) |->
        [iz \in 0..(HNz - 1) |-> [ir \in 0..(HNr - 1) |-> 100 * (k + 1) + 10 * iz + ir]]]
\* What the buffers, of shape (K, nz_end - nz_start, Nr), hold before the
\* launch
StaleCell == -1
StaleBuffer(K, n) ==
    [k \in 0..(K - 1) |-> [iz \in 0..(n - 1) |-> [ir \in 0..(HNr - 1) |-> StaleCell]]]

\* iz, ir = cuda.grid(2): the threads of a launch, which cover the region
\* copied and more
CudaGrid == (0..(HNz - 1)) \X (0..HNr)

\* Faulty variant: the right buffer is read from the rows of the left one
iz_rightAsLeft(iz) == nz_start + iz
\* The grid rows thread iz copies to the left and to the right buffers
iz_left(iz)  == nz_start + iz
iz_right(iz) == HNz - nz_end + iz

\* buf[k, iz, ir] = grid_k[row, ir] for k = 0 .. K-1, when the flag is set
Copied(buf, flag, K, row, iz, ir) ==
    IF flag
    THEN [k \in DOMAIN buf |->
             IF k < K THEN [buf[k] EXCEPT ![iz][ir] = grids[k][row][ir]] ELSE buf[k]]
    ELSE buf
RowsRead(iz) == (IF copy_left THEN {iz_left(iz)} ELSE {})
                \cup (IF copy_right THEN {iz_right(iz)} ELSE {})

\* The body of the kernels, run by the thread (iz, ir)
CopyThread(K, iz, ir) ==
    /\ <<iz, ir>> \in CudaGrid \ ran
    /\ ran' = ran \cup {<<iz, ir>>}
    /\ IF ir < HNr /\ iz < nz_end - nz_start
       THEN /\ buffer_l' = Copied(buffer_l, copy_left, K, iz_left(iz), iz, ir)
            /\ buffer_r' = Copied(buffer_r, copy_right, K, iz_right(iz), iz, ir)
            /\ rows' = rows \cup RowsRead(iz)
       ELSE UNCHANGED <<buffer_l, buffer_r, rows>>
    /\ UNCHANGED <<grids, copy_left, copy_right, nz_start, nz_end, launched,
                   guardVars, gatherVars, ionVars>>

copy_vec_to_gpu_buffer(iz, ir) ==
    launched = "copy_vec" /\ CopyThread(6, iz, ir)
copy_scal_to_gpu_buffer(iz, ir) ==
    launched = "copy_scal" /\ CopyThread(2, iz, ir)

(***************************************************************************)
(* boundaries/cuda_methods.py: replace_vec_from_gpu_buffer,                *)
(* replace_scal_from_gpu_buffer, add_vec_from_gpu_buffer and               *)
(* add_scal_from_gpu_buffer                                                *)
(***************************************************************************)
\* Nz, Nr = grid_0_r.shape
ShapeNz == Cardinality(DOMAIN grids[0])
ShapeNr == Cardinality(DOMAIN grids[0][0])

\* The grids of a launch, of shape (nz, nr), every cell with a value of its
\* own, and the buffers received, of shape (K, n, nr): those of the left
\* hold values from 1000 on, those of the right from 2000 on
GridsOfShape(K, nz, nr) ==
    [k \in 0..(K - 1) |->
        [iz \in 0..(nz - 1) |-> [ir \in 0..(nr - 1) |-> 100 * (k + 1) + 10 * iz + ir]]]
ReceivedBuffer(K, n, nr, side) ==
    [k \in 0..(K - 1) |->
        [iz \in 0..(n - 1) |->
            [ir \in 0..(nr - 1) |-> 1000 * side + 100 * (k + 1) + 10 * iz + ir]]]

\* iz, ir = cuda.grid(2): the threads of a launch, one for each cell of a
\* grid; those with iz >= nz_end - nz_start find nothing to do
GridThreads == (0..(ShapeNz - 1)) \X (0..(ShapeNr - 1))

AddKernels == {"add_vec", "add_scal"}
\* The accesses of a thread to the grids on one side, in program order:
\* an assignment is a write, an assignment += is a read and then a write.
\* The accesses to grid_0_r, ..., grid_1_z of one statement group are taken
\* together: cells of different grids never coincide.
SideAccesses(name, side) ==
    IF name \in AddKernels
    THEN <<[side |-> side, op |-> "read"], [side |-> side, op |-> "write"]>>
    ELSE <<[side |-> side, op |-> "write"]>>
Accesses(name) ==
    (IF copy_left THEN SideAccesses(name, "left") ELSE <<>>)
    \o (IF copy_right THEN SideAccesses(name, "right") ELSE <<>>)

\* Faulty variant: the row of the copy kernels, counted from nz_end
iz_right_gridFromEnd(iz) == ShapeNz - nz_end + iz
\* The grid rows thread iz writes from the left and from the right buffers
iz_left_grid(iz)  == iz
iz_right_grid(iz) == ShapeNz - (nz_end - nz_start) + iz
RowOf(side, iz) == IF side = "left" THEN iz_left_grid(iz) ELSE iz_right_grid(iz)
BufferOf(side) == IF side = "left" THEN buffer_l ELSE buffer_r

\* One access of the thread t = (iz, ir) to the row of a side: the read of
\* grid[row, ir] into a register, or the write of the buffer value, added
\* to the register in the add kernels
AccessAt(name, t, a, row) ==
    IF a.op = "read"
    THEN /\ reg' = [reg EXCEPT ![t] = [k \in DOMAIN grids |-> grids[k][row][t[2]]]]
         /\ UNCHANGED <<grids, wrote>>
    ELSE /\ grids' = [k \in DOMAIN grids |->
                         [grids[k] EXCEPT ![row][t[2]] =
                             (IF name \in AddKernels THEN reg[t][k] ELSE 0)
                             + BufferOf(a.side)[k][t[1]][t[2]]]]
         /\ wrote' = [wrote EXCEPT ![<<row, t[2]>>] = @ \cup {t}]
         /\ reg' = [reg EXCEPT ![t] = <<>>]
Access(name, t, a) == AccessAt(name, t, a, RowOf(a.side, t[1]))

\* A step of the thread t of a launch: its next access to the grids, or,
\* for a thread outside the region or with both flags unset, its end
GuardThread(name, t) ==
    /\ launched = name
    /\ t \in GridThreads \ ran
    /\ IF t[2] < ShapeNr /\ t[1] < nz_end - nz_start /\ Accesses(name) # <<>>
       THEN /\ Access(name, t, Accesses(name)[step[t]])
            /\ step' = [step EXCEPT ![t] = @ + 1]
            /\ ran' = IF step[t] = Len(Accesses(name)) THEN ran \cup {t} ELSE ran
       ELSE /\ ran' = ran \cup {t}
            /\ UNCHANGED <<grids, guardVars>>
    /\ UNCHANGED <<buffer_l, buffer_r, copy_left, copy_right, nz_start, nz_end,
                   launched, rows, gatherVars, ionVars>>

replace_vec_from_gpu_buffer(iz, ir)  == GuardThread("replace_vec", <<iz, ir>>)
replace_scal_from_gpu_buffer(iz, ir) == GuardThread("replace_scal", <<iz, ir>>)
add_vec_from_gpu_buffer(iz, ir)      == GuardThread("add_vec", <<iz, ir>>)
add_scal_from_gpu_buffer(iz, ir)     == GuardThread("add_scal", <<iz, ir>>)

(***************************************************************************)
(* particles/ionization/numba_methods.py: ionize_ions_numba                *)
(***************************************************************************)
MaxIonizations == 3
\* from scipy.constants import e: the weights are counted in units of e
ElementaryCharge == 1

Ions == 0..(Ntot - 1)
Min(a, b) == IF a < b THEN a ELSE b
\* N_max = min( (i_batch+1)*batch_size, Ntot )
N_max == Min((i_batch + 1) * batch_size, Ntot)

\* Faulty variant: an ion is skipped only above z_max
SkippedAbove(level) == level > z_max
\* if level >= z_max: continue
Skipped(level) == level >= z_max

ionFrame == <<N_batch, batch_size, Ntot, z_max, neutral_weight, gatherVars, boundaryVars>>

\* Entry of ionize_ions_numba
ionize_ions_numba ==
    /\ ionizing = "returned"
    /\ ionizations < MaxIonizations
    /\ ionizations' = ionizations + 1
    /\ ionizing' = "batches"
    /\ i_batch' = 0
    /\ seen' = <<>>
    /\ entry' = [entry EXCEPT !.level = ionization_level, !.w = w]
    /\ UNCHANGED <<n_ionized, is_ionized, ionization_level, w, ip, ionFrame>>

\* for i_batch in range( N_batch ): the head of the body, up to the first
\* value of ip
IonizeBatch ==
    /\ ionizing = "batches"
    /\ i_batch < N_batch
    /\ n_ionized' = [n_ionized EXCEPT ![i_batch] = 0]
    /\ ip' = i_batch * batch_size
    /\ ionizing' = "ions"
    /\ UNCHANGED <<is_ionized, ionization_level, w, i_batch, ionizations, seen, entry, ionFrame>>

\* The end of the loop over the batches, and of the call
IonizeReturn ==
    /\ ionizing = "batches"
    /\ i_batch >= N_batch
    /\ ionizing' = "returned"
    /\ UNCHANGED <<n_ionized, is_ionized, ionization_level, w, i_batch, ip,
                   ionizations, seen, entry, ionFrame>>

\* for ip in range( i_batch*batch_size, N_max ): one ion is visited
IonVisited ==
    /\ ionizing = "ions"
    /\ ip < N_max
    /\ ip' = ip + 1
    /\ seen' = Append(seen, ip)
    /\ UNCHANGED <<i_batch, ionizing, ionizations, entry, ionFrame>>

\* The ion has reached the maximal level: continue
IonSkipped ==
    /\ IonVisited
    /\ Skipped(ionization_level[ip])
    /\ UNCHANGED <<n_ionized, is_ionized, ionization_level, w>>

\* random_draw[ip] < p: the ion is ionized.  The amplitude E and the
\* probability p come from functions of inline_functions.py; either
\* outcome of the comparison is possible.
IonIonized ==
    /\ IonVisited
    /\ ~Skipped(ionization_level[ip])
    /\ is_ionized' = [is_ionized EXCEPT ![ip] = 1]
    /\ n_ionized' = [n_ionized EXCEPT ![i_batch] = @ + 1]
    /\ ionization_level' = [ionization_level EXCEPT ![ip] = @ + 1]
    /\ w' = [w EXCEPT ![ip] = ElementaryCharge * ionization_level'[ip] * neutral_weight[ip]]

\* random_draw[ip] >= p: the ion stays as it is
IonKept ==
    /\ IonVisited
    /\ ~Skipped(ionization_level[ip])
    /\ is_ionized' = [is_ionized EXCEPT ![ip] = 0]
    /\ UNCHANGED <<n_ionized, ionization_level, w>>

\* The end of the loop over the ions of a batch
IonizeBatchEnd ==
    /\ ionizing = "ions"
    /\ ip >= N_max
    /\ i_batch' = i_batch + 1
    /\ ionizing' = "batches"
    /\ UNCHANGED <<n_ionized, is_ionized, ionization_level, w, ip,
                   ionizations, seen, entry, ionFrame>>

\* One call of a linear gather, electromagnetic or envelope
InitLinear ==
    /\ InitPositions(PosLinear)
    /\ fields \in FieldsLinear
    /\ InitEMOutputs
    /\ InitEnvIdle
    /\ InitRun

NextLinear ==
    \/ StartLinear
    \/ \E i \in Particles : LinearIter(i)
    \/ LinearReturn
    \/ \E gg, avg \in BOOLEAN : StartEnvLinear(gg, avg)
    \/ EnvLinearIter
    \/ EnvLinearReturn

SpecLinear == InitLinear /\ [][NextLinear]_vars

\* Two and more calls of the linear gather on one set of grids, the caller
\* moving particles in between
PosIndep ==
    { <<Q(3, 40),   Q(1, 10), Q(-1, 2)>>,
      <<Q(-3, 10),  Q(2, 5),  R(0)>>,
      <<Q(9, 8),    Q(3, 2),  Q(3, 2)>> }

InitIndep ==
    /\ InitPositions(PosIndep)
    /\ fields = GeneralFields
    /\ InitEMOutputs
    /\ InitEnvIdle
    /\ InitRun

NextIndep ==
    \/ StartLinear
    \/ \E i \in Particles : LinearIter(i)
    \/ LinearReturn
    \/ \E j \in Particles, p \in PosIndep : Push(j, p)
    \/ LinearAgain

SpecIndep == InitIndep /\ [][NextIndep]_vars

\* Calls of the cubic electromagnetic gather, each with any number of
\* threads and any chunk boundaries
InitCubic ==
    /\ InitPositions(PosCubic)
    /\ fields \in FieldsCubic
    /\ InitEMOutputs
    /\ InitEnvIdle
    /\ InitRun

NextCubic ==
    \/ \E nt \in 1..MaxThreads : \E chunks \in ChunkIndices(nt) : StartCubic(nt, chunks)
    \/ \E t \in 0..(MaxThreads - 1) : CubicShapeStep(t)
    \/ \E t \in 0..(MaxThreads - 1) : CubicGatherStep(t)
    \/ CubicReturn
    \/ \E nt \in 1..MaxThreads : \E chunks \in ChunkIndices(nt) : CubicAgain(nt, chunks)

SpecCubic == InitCubic /\ [][NextCubic]_vars

\* Calls of the envelope kernels, linear and cubic, with any flags, on the
\* same arrays
PosEnvelope(i) ==
    IF i % 2 = 0 THEN <<Q(9, 20), Q(3, 5), Q(-1, 2)>>
                 ELSE <<Q(3, 5),  Q(4, 5), R(0)>>

InitEnvelope ==
    /\ x = [i \in Particles |-> PosEnvelope(i)[1]]
    /\ y = [i \in Particles |-> PosEnvelope(i)[2]]
    /\ z = [i \in Particles |-> PosEnvelope(i)[3]]
    /\ fields = NoFields
    /\ InitEMOutputs
    /\ env \in EnvAll
    /\ a2 = [i \in Particles |-> R(5)]
    /\ grad_a2_x = StaleArray /\ grad_a2_y = StaleArray /\ grad_a2_z = StaleArray
    /\ gather_gradient = FALSE /\ average_a2 = FALSE
    /\ InitRun

NextEnvelope ==
    \/ \E gg, avg \in BOOLEAN : StartEnvLinear(gg, avg)
    \/ \E gg, avg \in BOOLEAN : EnvLinearAgain(gg, avg)
    \/ EnvLinearIter
    \/ EnvLinearReturn
    \/ \E gg, avg \in BOOLEAN : \E nt \in 1..MaxThreads :
          \E chunks \in ChunkIndices(nt) : StartEnvCubic(nt, chunks, gg, avg)
    \/ \E gg, avg \in BOOLEAN : \E nt \in 1..MaxThreads :
          \E chunks \in ChunkIndices(nt) : EnvCubicAgain(nt, chunks, gg, avg)
    \/ \E t \in 0..(MaxThreads - 1) : CubicShapeStep(t)
    \/ \E t \in 0..(MaxThreads - 1) : EnvCubicGatherStep(t)
    \/ CubicReturn

SpecEnvelope == InitEnvelope /\ [][NextEnvelope]_vars

\* One call of any of the four kernels
PosAny ==
    { <<R(0),     R(0),     R(0)>>,
      <<R(0),     R(0),     Q(-1, 2)>>,
      <<Q(3, 5),  Q(4, 5),  R(0)>> }

Init ==
    /\ InitPositions(PosAny)
    /\ fields = GeneralFields
    /\ InitEMOutputs
    /\ InitEnvIdle
    /\ InitRun

Next ==
    \/ StartLinear
    \/ \E i \in Particles : LinearIter(i)
    \/ LinearReturn
    \/ \E gg, avg \in BOOLEAN : StartEnvLinear(gg, avg)
    \/ EnvLinearIter
    \/ EnvLinearReturn
    \/ \E nt \in 1..MaxThreads : \E chunks \in ChunkIndices(nt) : StartCubic(nt, chunks)
    \/ \E gg, avg \in BOOLEAN : \E nt \in 1..MaxThreads :
          \E chunks \in ChunkIndices(nt) : StartEnvCubic(nt, chunks, gg, avg)
    \/ \E t \in 0..(MaxThreads - 1) : CubicShapeStep(t)
    \/ \E t \in 0..(MaxThreads - 1) : CubicGatherStep(t)
    \/ \E t \in 0..(MaxThreads - 1) : EnvCubicGatherStep(t)
    \/ CubicReturn

Spec == Init /\ [][Next]_vars

\* One launch of a halo copy kernel, with any flags and any region
\* 0 <= nz_start <= nz_end <= Nz; the threads run in any order
InitHalo ==
    /\ launched \in {"copy_vec", "copy_scal"}
    /\ grids = HaloGrids(NGrids(launched))
    /\ copy_left \in BOOLEAN /\ copy_right \in BOOLEAN
    /\ nz_start \in 0..HNz /\ nz_end \in nz_start..HNz
    /\ buffer_l = StaleBuffer(NGrids(launched), nz_end - nz_start)
    /\ buffer_r = StaleBuffer(NGrids(launched), nz_end - nz_start)
    /\ ran = {} /\ rows = {}
    /\ step = <<>> /\ reg = <<>> /\ wrote = <<>>
    /\ x = [i \in Particles |-> Zero] /\ y = x /\ z = x
    /\ fields = NoFields
    /\ InitEMOutputs
    /\ InitEnvIdle
    /\ InitCalls
    /\ InitNoIonization

NextHalo ==
    \/ \E t \in CudaGrid : copy_vec_to_gpu_buffer(t[1], t[2])
    \/ \E t \in CudaGrid : copy_scal_to_gpu_buffer(t[1], t[2])

SpecHalo == InitHalo /\ [][NextHalo]_vars

\* One launch of a halo replace or add kernel on grids of 3 x 2 or 4 x 1
\* cells, with any flags and any region 0 <= nz_start <= nz_end <= Nz; the
\* accesses of the threads interleave in any order
GuardShapes == {<<3, 2>>, <<4, 1>>}
InitGuardLaunch(sh) ==
    /\ grids = GridsOfShape(NGrids(launched), sh[1], sh[2])
    /\ nz_start \in 0..sh[1] /\ nz_end \in nz_start..sh[1]
    /\ buffer_l = ReceivedBuffer(NGrids(launched), nz_end - nz_start, sh[2], 1)
    /\ buffer_r = ReceivedBuffer(NGrids(launched), nz_end - nz_start, sh[2], 2)
    /\ step  = [t \in (0..(sh[1] - 1)) \X (0..(sh[2] - 1)) |-> 1]
    /\ reg   = [t \in (0..(sh[1] - 1)) \X (0..(sh[2] - 1)) |-> <<>>]
    /\ wrote = [t \in (0..(sh[1] - 1)) \X (0..(sh[2] - 1)) |-> {}]
InitGuard ==
    /\ launched \in {"replace_vec", "replace_scal", "add_vec", "add_scal"}
    /\ copy_left \in BOOLEAN /\ copy_right \in BOOLEAN
    /\ \E sh \in GuardShapes : InitGuardLaunch(sh)
    /\ ran = {} /\ rows = {}
    /\ x = [i \in Particles |-> Zero] /\ y = x /\ z = x
    /\ fields = NoFields
    /\ InitEMOutputs
    /\ InitEnvIdle
    /\ InitCalls
    /\ InitNoIonization

NextGuard ==
    \/ \E t \in GridThreads : replace_vec_from_gpu_buffer(t[1], t[2])
    \/ \E t \in GridThreads : replace_scal_from_gpu_buffer(t[1], t[2])
    \/ \E t \in GridThreads : add_vec_from_gpu_buffer(t[1], t[2])
    \/ \E t \in GridThreads : add_scal_from_gpu_buffer(t[1], t[2])

SpecGuard == InitGuard /\ [][NextGuard]_vars

\* Calls of ionize_ions_numba on the same arrays: 2 or 3 ions of neutral
\* weight 2, all neutral or at the levels 0, 1, 2, in batches of 1 or 2,
\* with as many batches as cover the ions or fewer, or one more
LevelsAtFirst == {[i \in Ions |-> 0], [i \in Ions |-> i]}
InitIonization ==
    /\ Ntot \in {2, 3} /\ z_max \in {1, 2} /\ batch_size \in {1, 2}
    /\ N_batch \in 1..(Ntot \div batch_size + 1)
    /\ neutral_weight = [i \in Ions |-> 2]
    /\ ionization_level \in LevelsAtFirst
    /\ w = [i \in Ions |-> ElementaryCharge * ionization_level[i] * neutral_weight[i]]
    /\ is_ionized = [i \in Ions |-> 0]
    /\ n_ionized = [b \in 0..(N_batch - 1) |-> 0]
    /\ i_batch = 0 /\ ip = 0 /\ ionizing = "returned" /\ ionizations = 0
    /\ seen = <<>>
    /\ entry = [first |-> ionization_level, level |-> ionization_level, w |-> w]
    /\ x = [i \in Particles |-> Zero] /\ y = x /\ z = x
    /\ fields = NoFields
    /\ InitEMOutputs
    /\ InitEnvIdle
    /\ InitCalls
    /\ InitNoLaunch

NextIonization ==
    \/ ionize_ions_numba
    \/ IonizeBatch
    \/ IonSkipped
    \/ IonIonized
    \/ IonKept
    \/ IonizeBatchEnd
    \/ IonizeReturn

SpecIonization == InitIonization /\ [][NextIonization]_vars

\* One call of an electromagnetic gather whose six output arrays hold one
\* entry more than the particle arrays x, y, z.  The kernels take the
\* number of particles from x alone and look at no other shape.
LongArray == [i \in 0..Np |-> Stale]
InitMismatch ==
    /\ InitPositions(PosAny)
    /\ fields = GeneralFields
    /\ Ex = LongArray /\ Ey = LongArray /\ Ez = LongArray
    /\ Bx = LongArray /\ By = LongArray /\ Bz = LongArray
    /\ InitEnvIdle
    /\ InitRun

NextMismatch ==
    \/ StartLinear
    \/ \E i \in Particles : LinearIter(i)
    \/ LinearReturn
    \/ \E nt \in 1..MaxThreads : \E chunks \in ChunkIndices(nt) : StartCubic(nt, chunks)
    \/ \E t \in 0..(MaxThreads - 1) : CubicShapeStep(t)
    \/ \E t \in 0..(MaxThreads - 1) : CubicGatherStep(t)
    \/ CubicReturn

SpecMismatch == InitMismatch /\ [][NextMismatch]_vars

\* Calls of the cubic electromagnetic gather with particle 0 at any of the
\* positions of the runs above, inside the grid or not, and the other
\* particles at a place where the stencil lies in the grid
InitShapes ==
    /\ \E p \in PosLinear \cup PosCubic :
          /\ x = [i \in Particles |-> IF i = 0 THEN p[1] ELSE Q(3, 5)]
          /\ y = [i \in Particles |-> IF i = 0 THEN p[2] ELSE Q(4, 5)]
          /\ z = [i \in Particles |-> IF i = 0 THEN p[3] ELSE R(0)]
    /\ fields = GeneralFields
    /\ InitEMOutputs
    /\ InitEnvIdle
    /\ InitRun

SpecShapes == InitShapes /\ [][NextCubic]_vars
(***************************************************************************)
(* Properties of the linear gather                                         *)
(***************************************************************************)
\* Quantities of particle i taken from the particle arrays themselves
RadiusOf(i) == Sqrt(RAdd(RPow2(x[i]), RPow2(y[i])))
RCellOf(i)  == RSub(RMul(invdr, RSub(RadiusOf(i), rmin)), Half)
ZCellOf(i)  == RSub(RMul(invdz, RSub(z[i], zmin)), Half)
IsInteger(p) == p[2] = 0 /\ p[3] = 1

\* (Ex, Ey, Ez)[i] is c*(cos theta, sin theta, 0) for the azimuth theta of
\* particle i: x = r cos theta, y = r sin theta, and theta = 0 on the axis
RotatedE(i, c) ==
    /\ IF RadiusOf(i) # Zero
       THEN /\ RMul(Ex[i], RadiusOf(i)) = RMul(c, x[i])
            /\ RMul(Ey[i], RadiusOf(i)) = RMul(c, y[i])
       ELSE Ex[i] = c /\ Ey[i] = Zero
    /\ Ez[i] = Zero

\* C5, as stated: with Er of mode 0 uniformly 1 and every other grid 0, the
\* linear gather yields Ex = cos(theta), Ey = sin(theta), Ez = 0 at any
\* particle position, the ones whose radial stencil straddles the axis
\* included.
C5_RotationAnywhere ==
    (kernel = "linear" /\ fields = UniformEr(One)) =>
        \A i \in done : RotatedE(i, One)

\* C5, amended: the same at every particle whose lower radial index
\* floor(r_cell) is not negative (the stencil does not straddle the axis),
\* the particles at and beyond the outer radial edge included; where the
\* stencil straddles the axis the weight of the lower cell is dropped and
\* the result is (r_cell + 1)(cos(theta), sin(theta), 0).
C5_RotationOffAxis ==
    (kernel = "linear" /\ fields = UniformEr(One)) =>
        \A i \in done :
            /\ Floor(RCellOf(i)) >= 0 => RotatedE(i, One)
            /\ Floor(RCellOf(i)) < 0 => RotatedE(i, RAdd(RCellOf(i), One))

\* C5 witness: a gathered particle off the x axis whose radial stencil
\* straddles the outer edge, in the uniform Er = 1 field
C5_Witness ==
    /\ kernel = "linear" /\ fields = UniformEr(One)
    /\ \E i \in done : /\ Floor(RCellOf(i)) = Nr - 1
                       /\ y[i] # Zero /\ x[i] # Zero
                       /\ Ex[i] # Stale

\* A particle at the exact centre of a cell of the grid
AtCellCentre(i) ==
    /\ IsInteger(RCellOf(i)) /\ Floor(RCellOf(i)) \in 0..(Nr - 1)
    /\ IsInteger(ZCellOf(i)) /\ Floor(ZCellOf(i)) \in 0..(Nz - 1)

\* C6: on the 4 x 4 grid with Er of mode 0 uniformly 2 and every other grid
\* 0, a particle at an exact cell centre gets Ex = 2 cos(theta),
\* Ey = 2 sin(theta), Ez = 0 and Bx = By = Bz = 0.
C6_CellCentre ==
    (kernel = "linear" /\ fields = UniformEr(R(2)) /\ Nz = 4 /\ Nr = 4) =>
        \A i \in done : AtCellCentre(i) =>
            /\ RotatedE(i, R(2))
            /\ Bx[i] = Zero /\ By[i] = Zero /\ Bz[i] = Zero

\* C6 witness: a gathered particle at a cell centre, off both axes
C6_Witness ==
    /\ kernel = "linear" /\ fields = UniformEr(R(2))
    /\ \E i \in done : AtCellCentre(i) /\ x[i] # Zero /\ y[i] # Zero

\* C7: when only the mode-0 grids are non-zero, two particles of the same
\* radius and the same z get the same cylindrical (Fr, Ft, Fz), for E and
\* for B, whatever their azimuths.
C7_Isotropy ==
    (kernel = "linear" /\ IsMode0Only(fields)) =>
        \A i, j \in done :
            (RadiusOf(i) = RadiusOf(j) /\ z[i] = z[j]) => loc[i].F = loc[j].F

\* C7 witness: two gathered particles of equal radius and z and different
\* azimuth, in a mode-0 field that is not uniform
C7_Witness ==
    /\ kernel = "linear" /\ fields = Mode0Fields
    /\ \E i, j \in done : /\ RadiusOf(i) = RadiusOf(j) /\ z[i] = z[j]
                          /\ x[i] # x[j]
                          /\ loc[i].F.E # <<Zero, Zero, Zero>>

\* C9: after the boundary treatment of the linear gather both radial
\* stencil indices lie in [0, Nr-1], for every particle position.
C9_RadialIndices ==
    (kernel \in {"linear", "env_linear"}) =>
        \A i \in DOMAIN loc : /\ loc[i].S.ir_lower \in 0..(Nr - 1)
                              /\ loc[i].S.ir_upper \in 0..(Nr - 1)

\* C9 witness: the boundary treatment acted at both radial edges: one
\* particle with floor(r_cell) < 0 and one with floor(r_cell) + 1 > Nr-1
C9_Witness ==
    /\ kernel = "linear"
    /\ \E i, j \in DOMAIN loc : /\ Floor(RCellOf(i)) < 0
                                /\ Floor(RCellOf(j)) > Nr - 1

\* C10, as stated: the axial stencil indices are floor(z_cell) mod Nz and
\* (floor(z_cell) + 1) mod Nz for every axial position, the particles more
\* than one domain length outside the box included.
C10_AxialModulo ==
    (kernel \in {"linear", "env_linear"}) =>
        \A i \in DOMAIN loc :
            /\ loc[i].S.iz_lower = Floor(ZCellOf(i)) % Nz
            /\ loc[i].S.iz_upper = (Floor(ZCellOf(i)) + 1) % Nz

\* The six outputs of particle i, in the arrays or in a record of arrays
OutputsAt(o, i) == <<o.Ex[i], o.Ey[i], o.Ez[i], o.Bx[i], o.By[i], o.Bz[i]>>
PositionAt(p, i) == <<p.x[i], p.y[i], p.z[i]>>

\* C2: of two linear gathers on the same grids, a particle whose position
\* is the same in both gets the same six outputs in both, wherever the
\* other particles are; and the iterations of the other particles leave its
\* output entries as they were.
C2_Independence ==
    (kernel = "linear" /\ calls >= 1) =>
        \A i \in Particles :
            /\ (/\ i \in done /\ calls >= 2
                /\ PositionAt(lastPos, i) = PositionAt(old.pos, i))
                   => OutputsAt(Outputs, i) = OutputsAt(old.out, i)
            /\ i \notin done => OutputsAt(Outputs, i) = OutputsAt(old.out, i)

\* C2 witness: a second gather has completed a particle that did not move
\* while another particle did, and the first gather had written it
C2_Witness ==
    /\ kernel = "linear" /\ calls >= 2
    /\ \E i, j \in done : /\ PositionAt(lastPos, i) = PositionAt(old.pos, i)
                          /\ PositionAt(lastPos, j) # PositionAt(old.pos, j)
                          /\ Ex[i] # Stale

(***************************************************************************)
(* Properties of the cubic gather, the envelope gather and the four        *)
(* kernels together                                                        *)
(***************************************************************************)
\* C1: the six outputs the cubic gather leaves for every particle are the
\* same in two calls on the same particles and grids, whatever the number of
\* threads and the chunk boundaries of either call and however the threads
\* interleave.
C1_ParallelInvariance ==
    (kernel = "cubic" /\ status = "done" /\ calls >= 2) =>
        \A i \in Particles : OutputsAt(Outputs, i) = OutputsAt(old.out, i)

\* C1 witness: a call with one chunk followed by a completed call in which
\* two threads each own a particle, the two particles at different places
C1_Witness ==
    /\ kernel = "cubic" /\ status = "done" /\ calls >= 2
    /\ old.nthreads = 1 /\ nthreads >= 2
    /\ ptcl_chunk_indices[0] < ptcl_chunk_indices[1]
    /\ ptcl_chunk_indices[1] < ptcl_chunk_indices[2]
    /\ PositionAt(Positions, 0) # PositionAt(Positions, Np - 1)
    /\ Ex[0] # Stale /\ Ex[Np - 1] # Stale

\* |F|^2 of a complex number
ModulusSquared(F) == RAdd(RPow2(Re(F)), RPow2(Im(F)))
EnvelopeKernel == kernel \in {"env_linear", "env_cubic"}

\* C3: with average_a2 an envelope gather leaves in a2[i] half the sum of
\* the value a2[i] held before the call and the intensity the call gathered;
\* from the stored intensity 5 and a gathered intensity of 3 the value is 4
\* after the first call and 7/2 after a second, identical one.
C3_Average ==
    (EnvelopeKernel /\ average_a2) =>
        \A i \in done :
            /\ a2[i] = RMul(Half, RAdd(old.out.a2[i], ModulusSquared(loc[i].F)))
            /\ (/\ calls = 1 /\ old.out.a2[i] = R(5)
                /\ ModulusSquared(loc[i].F) = R(3)) => a2[i] = R(4)
            /\ (/\ calls = 2 /\ old.average_a2 /\ old.kernel = kernel
                /\ ModulusSquared(loc[i].F) = R(3)) => a2[i] = Q(7, 2)

\* C3 witness: the second of two averaging calls of the cubic kernel has
\* gathered the intensity 3 for a particle that now holds 7/2
C3_Witness ==
    /\ kernel = "env_cubic" /\ average_a2 /\ calls = 2
    /\ old.average_a2 /\ old.kernel = kernel
    /\ \E i \in done : ModulusSquared(loc[i].F) = R(3) /\ a2[i] = Q(7, 2)

\* C4: without average_a2 an envelope gather leaves in a2[i] the gathered
\* intensity Re(F conj(F)) = |F|^2 whatever a2[i] held before, so that a
\* repeated call of the same kernel leaves a2 as the call before left it.
C4_Overwrite ==
    (EnvelopeKernel /\ ~average_a2) =>
        \A i \in done :
            /\ a2[i] = ModulusSquared(loc[i].F)
            /\ (calls >= 2 /\ ~old.average_a2 /\ old.kernel = kernel)
                   => a2[i] = old.out.a2[i]

\* C4 witness: an overwriting linear call after an averaging one, and an
\* overwriting call repeated, each on a gathered amplitude that is not real
C4_Witness ==
    /\ kernel = "env_linear" /\ ~average_a2 /\ calls >= 2
    /\ \E i \in done : /\ Im(loc[i].F) # Zero
                       /\ old.out.a2[i] # R(5)
                       /\ ~old.average_a2 /\ old.kernel = kernel

\* C8: for a particle with x = 0 and y = 0 each of the four kernels uses
\* cos = 1 and sin = 0 and performs no division by the radius.
C8_OnAxis ==
    \A i \in DOMAIN loc :
        (x[i] = Zero /\ y[i] = Zero) =>
            /\ loc[i].cyl.cos = One
            /\ loc[i].cyl.sin = Zero
            /\ loc[i].cyl.invr = Unset

\* C8 witness: the cubic envelope kernel has converted a particle on the
\* axis and one off the axis, for which it divided
C8_Witness ==
    /\ kernel = "env_cubic"
    /\ \E i, j \in DOMAIN loc : /\ x[i] = Zero /\ y[i] = Zero
                                /\ loc[j].cyl.invr # Unset

(***************************************************************************)
(* Indices outside the grid                                                *)
(***************************************************************************)
\* The axial indices of particle i's stencil, after the wraparound, are not
\* both rows of the grid
AxialOutside(i) ==
    \/ loc[i].S.iz_lower \notin 0..(Nz - 1)
    \/ loc[i].S.iz_upper \notin 0..(Nz - 1)

C12_FailFast ==
    (calls > 0 /\ DOMAIN Ex # Particles) =>
        /\ status # "done"
        /\ done = {}
        /\ Outputs = old.out

(***************************************************************************)
(* Shape weights                                                           *)
(***************************************************************************)
\* The value at (iz, ir) of the grid g, times the weight wt
Weighted(wt, g, iz, ir) == CScale(wt, g[iz][ir])

\* Er of mode 0 gathered from the two stencil points of the upper radial
\* index alone
UpperPointsEr(f, S) ==
    Re(CAdd(Weighted(S.S_lu, f.Er_m0, S.iz_lower, S.ir_upper),
            Weighted(S.S_uu, f.Er_m0, S.iz_upper, S.ir_upper)))

\* C13: in the linear gather, when floor(r_cell) is negative the lower
\* radial index is clamped to 0 and the weight of the lower radial point,
\* -r_cell, is applied to no grid value: the products S_ll and S_ul are 0,
\* the gathered radial field is the sum over the two upper points alone,
\* and of a uniform Er = c it is c * (r_cell + 1), neither c (the weight
\* applied to cell 0) nor c * (2 * r_cell + 1) (the weight reflected).
C13_LowerWeightDropped ==
    kernel = "linear" =>
        \A i \in done :
            Floor(RCellOf(i)) < 0 =>
                /\ loc[i].S.ir_lower = 0 /\ loc[i].S.ir_upper = 0
                /\ loc[i].S.Sr_lower = Zero
                /\ loc[i].S.Sr_guard = RNeg(RCellOf(i))
                /\ loc[i].S.S_ll = Zero /\ loc[i].S.S_ul = Zero
                /\ IsMode0Only(fields) =>
                       loc[i].F.E[1] = UpperPointsEr(fields, loc[i].S)
                /\ \A c \in {One, R(2)} :
                       fields = UniformEr(c) =>
                           loc[i].F.E[1] = RMul(c, RAdd(RCellOf(i), One))

\* A gathered particle off the axis whose radial stencil straddles it, in a
\* uniform radial field
C13_Witness ==
    /\ kernel = "linear" /\ fields = UniformEr(R(2))
    /\ \E i \in done : /\ Floor(RCellOf(i)) < 0
                       /\ RadiusOf(i) # Zero
                       /\ loc[i].F.E[1] = Q(3, 2)

\* A rational number of [0, 1]
InUnitInterval(p) == p[2] = 0 /\ 0 <= p[1] /\ p[1] <= p[3]
\* Two weights of [0, 1] that sum to 1
SumToOne(lower, upper) ==
    /\ RAdd(lower, upper) = One
    /\ InUnitInterval(lower) /\ InUnitInterval(upper)

\* C14 as stated: for every gathered particle (stencil indices in the grid
\* after the boundary treatment) the two weights applied along each axis
\* are in [0, 1] and sum to 1.
C14_WeightsSumAnywhere ==
    kernel = "linear" =>
        \A i \in done :
            /\ SumToOne(loc[i].S.Sz_lower, loc[i].S.Sz_upper)
            /\ SumToOne(loc[i].S.Sr_lower, loc[i].S.Sr_upper)

\* C14, amended: for every gathered particle the two axial weights are in
\* [0, 1] and sum to 1, and so do the two radial weights when floor(r_cell)
\* >= 0 (also where the upper index is clamped to Nr-1).  When floor(r_cell)
\* < 0 the applied radial weights are 0 and r_cell + 1, and it is the
\* three weights Sr_lower, Sr_upper, Sr_guard that sum to 1.
C14_WeightsSum ==
    kernel = "linear" =>
        \A i \in done :
            /\ SumToOne(loc[i].S.Sz_lower, loc[i].S.Sz_upper)
            /\ Floor(RCellOf(i)) >= 0 =>
                   SumToOne(loc[i].S.Sr_lower, loc[i].S.Sr_upper)
            /\ Floor(RCellOf(i)) < 0 =>
                   /\ loc[i].S.Sr_lower = Zero
                   /\ loc[i].S.Sr_upper = RAdd(RCellOf(i), One)
                   /\ SumToOne(loc[i].S.Sr_upper, loc[i].S.Sr_guard)

\* A gathered particle inside a cell, both radial weights positive, and
\* another whose upper radial index was clamped
C14_Witness ==
    /\ kernel = "linear"
    /\ \E i \in done : /\ Floor(RCellOf(i)) >= 0
                       /\ loc[i].S.Sr_lower # Zero /\ loc[i].S.Sr_upper # Zero
                       /\ loc[i].S.Sz_lower # Zero /\ loc[i].S.Sz_upper # Zero
    /\ \E i \in done : /\ Floor(RCellOf(i)) >= Nr - 1
                       /\ loc[i].S.ir_lower = loc[i].S.ir_upper

\* The sum of the four weights of an array Sr or Sz
Sum4(S) == RAdd(RAdd(S[1], S[2]), RAdd(S[3], S[4]))

\* C15: in the cubic gather, once a thread has stored the weights of its
\* particle, the four weights Sr[0..3] sum to 1 and so do Sz[0..3], and
\* the lowest stencil indices are floor(r_cell) - 1 and floor(z_cell) - 1,
\* wherever the particle is.
C15_CubicWeightsSum ==
    (kernel = "cubic" /\ status # "idle") =>
        \A t \in Threads :
            tpc[t] = "gather" =>
                /\ Sum4(Sr[t]) = One
                /\ Sum4(Sz[t]) = One
                /\ loc[ti[t]].r_cell = RCellOf(ti[t])
                /\ loc[ti[t]].z_cell = ZCellOf(ti[t])
                /\ loc[ti[t]].ir_lowest = Floor(RCellOf(ti[t])) - 1
                /\ loc[ti[t]].iz_lowest = Floor(ZCellOf(ti[t])) - 1

\* Two threads hold the weights of two particles at once, one of them away
\* from the cell centres and the nodes, with four positive radial weights
C15_Witness ==
    /\ kernel = "cubic" /\ nthreads = 2
    /\ tpc[0] = "gather" /\ tpc[1] = "gather"
    /\ RCellOf(0) = Q(13, 4)
    /\ \A k \in 1..4 : Sr[0][k][1] > 0
    /\ Sr[0] # Sr[1]

(***************************************************************************)
(* The envelope gather: gradient, phase factors, sign of the intensity     *)
(***************************************************************************)
\* 2 * Re(A * conj(F)), written out in real and imaginary parts
TwiceReConj(A, F) ==
    RMul(R(2), RAdd(RMul(Re(A), Re(F)), RMul(Im(A), Im(F))))
\* The Cartesian components of the gradient gathered for particle i
GradX(i) == CAdd(CScale(loc[i].cyl.cos, loc[i].G[1]),
                 CScale(RNeg(loc[i].cyl.sin), loc[i].G[2]))
GradY(i) == CAdd(CScale(loc[i].cyl.sin, loc[i].G[1]),
                 CScale(loc[i].cyl.cos, loc[i].G[2]))

\* C16: an envelope gather called with gather_gradient false leaves
\* grad_a2_x, grad_a2_y and grad_a2_z as they were for every particle and
\* changes a2 alone; with gather_gradient true the gradient outputs of a
\* gathered particle are 2 * Re(component * conj(F)) for the Cartesian
\* components of the gathered gradient and the amplitude F before it is
\* squared.  The six electromagnetic outputs and the entries of particles
\* not yet gathered are as they were in either case.
C16_Gradient ==
    (EnvelopeKernel /\ status # "idle") =>
        /\ \A i \in Particles : OutputsAt(Outputs, i) = OutputsAt(old.out, i)
        /\ ~gather_gradient =>
               /\ grad_a2_x = old.out.grad_a2_x
               /\ grad_a2_y = old.out.grad_a2_y
               /\ grad_a2_z = old.out.grad_a2_z
        /\ \A i \in Particles \ done :
               /\ a2[i] = old.out.a2[i]
               /\ grad_a2_x[i] = old.out.grad_a2_x[i]
               /\ grad_a2_y[i] = old.out.grad_a2_y[i]
               /\ grad_a2_z[i] = old.out.grad_a2_z[i]
        /\ gather_gradient =>
               \A i \in done :
                   /\ grad_a2_x[i] = TwiceReConj(GradX(i), loc[i].F)
                   /\ grad_a2_y[i] = TwiceReConj(GradY(i), loc[i].F)
                   /\ grad_a2_z[i] = TwiceReConj(loc[i].G[3], loc[i].F)

\* A call without the gradient after a call with it: the particle gathered
\* keeps the gradient of the earlier call and has a new a2
C16_Witness ==
    /\ EnvelopeKernel /\ calls = 2
    /\ old.gather_gradient /\ ~gather_gradient
    /\ \E i \in done : /\ grad_a2_x[i] # Stale
                       /\ grad_a2_x[i] # Zero
                       /\ a2[i] # old.out.a2[i]
                       /\ Im(loc[i].F) # Zero

\* The phase factors of particle i written out: cos - i sin for the mode 1
\* and cos + i sin for the mode -1
Phase1(i)      == C(loc[i].cyl.cos, RNeg(loc[i].cyl.sin))
PhaseMinus1(i) == C(loc[i].cyl.cos, loc[i].cyl.sin)
\* (cos - i sin)^2 = cos^2 - sin^2 - 2 i sin cos
Phase2(i) ==
    C(RSub(RPow2(loc[i].cyl.cos), RPow2(loc[i].cyl.sin)),
      RNeg(RMul(R(2), RMul(loc[i].cyl.sin, loc[i].cyl.cos))))
\* The amplitude of the modes 0, 1, -1 gathered in this order from the
\* grids a[0], a[1] and a[-1], the last grid of a
AmplitudeByMode(i) ==
    CAdd(CAdd(LinearStencilSum(env.a[1], loc[i].S),
              CMul(Phase1(i), LinearStencilSum(env.a[2], loc[i].S))),
         CMul(PhaseMinus1(i), LinearStencilSum(env.a[3], loc[i].S)))

\* C17: the phase factor of the envelope gather is 1 for the mode 0,
\* cos - i sin for the mode 1 and its square for the mode 2, and the factor
\* of -m is the complex conjugate of the factor of m; the amplitude
\* gathered with m_array = (0, 1, -1) is the sum, mode after mode, of the
\* factor of the mode times the value gathered from the grid a[m].
C17_PhaseFactor ==
    kernel = "env_linear" =>
        \A i \in DOMAIN loc :
            /\ EnvelopePhase(loc[i].cyl.cos, loc[i].cyl.sin, 0) = COne
            /\ EnvelopePhase(loc[i].cyl.cos, loc[i].cyl.sin, 1) = Phase1(i)
            /\ EnvelopePhase(loc[i].cyl.cos, loc[i].cyl.sin, 2) = Phase2(i)
            /\ \A m \in 0..2 :
                   EnvelopePhase(loc[i].cyl.cos, loc[i].cyl.sin, -m)
                       = CConj(EnvelopePhase(loc[i].cyl.cos, loc[i].cyl.sin, m))
            /\ (i \in done /\ env.m_array = <<0, 1, -1>>) =>
                   loc[i].F = AmplitudeByMode(i)

\* Two particles gathered at different azimuths, neither on a coordinate
\* axis, so that the factors of the modes 1 and -1 differ
C17_Witness ==
    /\ kernel = "env_linear" /\ env.m_array = <<0, 1, -1>>
    /\ \E i, j \in done : /\ loc[i].cyl.sin # Zero /\ loc[j].cyl.sin # Zero
                          /\ loc[i].cyl.cos # loc[j].cyl.cos
                          /\ loc[i].cyl.cos # Zero /\ loc[j].cyl.cos # Zero
                          /\ Im(loc[i].F) # Zero

\* (a + b sqrt(3)) / d >= 0, for d > 0
NonNegative(p) ==
    IF p[2] = 0 THEN p[1] >= 0
    ELSE IF p[1] >= 0 /\ p[2] > 0 THEN TRUE
    ELSE IF p[1] <= 0 /\ p[2] < 0 THEN FALSE
    ELSE IF p[1] > 0 THEN p[1] * p[1] >= 3 * p[2] * p[2]
    ELSE 3 * p[2] * p[2] >= p[1] * p[1]

\* C19: the stored intensity a2[i] of every particle is >= 0 before,
\* during and after every envelope gather call, whatever the kernels, the
\* flags and the grids of the calls, when it was >= 0 before the first.
C19_NonNegative ==
    \A i \in Particles : NonNegative(a2[i])

\* An averaging call after an overwriting one, and the reverse, on an
\* amplitude that is not real
C19_Witness ==
    /\ EnvelopeKernel /\ calls = 2 /\ status = "done"
    /\ old.average_a2 # average_a2
    /\ \E i \in done : Im(loc[i].F) # Zero /\ a2[i] # R(5)

(***************************************************************************)
(* Static chunking of the cubic kernels                                    *)
(***************************************************************************)
\* The threads whose chunk holds the particle index i
OwnersOf(i) ==
    { t \in Threads : ptcl_chunk_indices[t] <= i /\ i < ptcl_chunk_indices[t + 1] }
\* All ten output entries of particle i
EntriesAt(o, i) ==
    <<o.Ex[i], o.Ey[i], o.Ez[i], o.Bx[i], o.By[i], o.Bz[i],
      o.a2[i], o.grad_a2_x[i], o.grad_a2_y[i], o.grad_a2_z[i]>>

\* Every particle index belongs to the chunk of exactly one thread; the
\* particles gathered are those its owner has passed; a call that has
\* returned has gathered every particle.
ChunksPartition ==
    (kernel = "cubic" /\ status # "idle") =>
        /\ \A i \in Particles :
               /\ Cardinality(OwnersOf(i)) = 1
               /\ i \in done <=> \E t \in OwnersOf(i) : i < ti[t]
        /\ status = "done" => done = Particles
\* A step of a running call that writes an output entry or completes an
\* iteration is the step of one thread t on the particle i = ti[t] of its
\* own chunk, not gathered before; it touches the entries of no other
\* particle and moves no other thread.
WriteByOwner ==
    (/\ kernel = "cubic" /\ status = "running"
     /\ (Outputs' # Outputs \/ done' # done)) =>
        \E t \in Threads :
            /\ t \in OwnersOf(ti[t])
            /\ ti[t] \notin done
            /\ done' = done \cup {ti[t]}
            /\ ti' = [ti EXCEPT ![t] = ti[t] + 1]
            /\ \A j \in Particles \ {ti[t]} :
                   EntriesAt(Outputs', j) = EntriesAt(Outputs, j)

\* C18: with ptcl_chunk_indices non-decreasing from 0 to N, in every
\* interleaving of the threads of the cubic gather every particle index is
\* processed by exactly one thread, exactly once, and no output entry is
\* written by two threads.
C18_StaticChunking == [][ChunksPartition' /\ WriteByOwner]_vars

\* A call of two threads, thread 0 owning particle 0 and thread 1 the
\* others, has returned with every particle gathered
C18_Witness ==
    /\ kernel = "cubic" /\ nthreads = 2
    /\ ptcl_chunk_indices = (0 :> 0) @@ (1 :> 1) @@ (2 :> Np)
    /\ status = "done" /\ done = Particles
    /\ Ex[0] # Stale /\ Ex[Np - 1] # Stale

(***************************************************************************)
(* The halo copy kernels                                                   *)
(***************************************************************************)
\* The cell (k, iz, ir) of a buffer: the grid value of the row once the
\* thread (iz, ir) has run with the flag set, and the stale value otherwise
CellOf(flag, k, row, iz, ir) ==
    IF flag /\ <<iz, ir>> \in ran THEN grids[k][row][ir] ELSE StaleCell

\* The state of a launch: the grids are as they were; the buffers keep
\* their shape; the left buffer is written only when copy_left is set and
\* then holds grid_k[nz_start + iz, ir], the right buffer only when
\* copy_right is set and then holds grid_k[Nz - nz_end + iz, ir]; every
\* row read is a row of the grids.
HaloCopied ==
    /\ grids = HaloGrids(NGrids(launched))
    /\ DOMAIN buffer_l = 0..(NGrids(launched) - 1)
    /\ DOMAIN buffer_r = 0..(NGrids(launched) - 1)
    /\ \A k \in 0..(NGrids(launched) - 1) :
           /\ buffer_l[k] = [iz \in 0..(nz_end - nz_start - 1) |->
                                [ir \in 0..(HNr - 1) |->
                                    CellOf(copy_left, k, nz_start + iz, iz, ir)]]
           /\ buffer_r[k] = [iz \in 0..(nz_end - nz_start - 1) |->
                                [ir \in 0..(HNr - 1) |->
                                    CellOf(copy_right, k, HNz - nz_end + iz, iz, ir)]]
    /\ rows \subseteq 0..(HNz - 1)
\* A thread with ir >= Nr or iz >= nz_end - nz_start writes nothing
IdleThreads ==
    \A t \in ran' \ ran :
        (t[2] >= HNr \/ t[1] >= nz_end - nz_start) =>
            /\ buffer_l' = buffer_l /\ buffer_r' = buffer_r
            /\ grids' = grids /\ rows' = rows

\* C20: in a launch of copy_vec_to_gpu_buffer or copy_scal_to_gpu_buffer
\* with 0 <= nz_start <= nz_end <= Nz, the threads with ir >= Nr or
\* iz >= nz_end - nz_start write nothing; the grids are never modified;
\* the left buffer is written only when copy_left is true and then
\* buffer_l[k, iz, ir] = grid_k[nz_start + iz, ir]; the right buffer only
\* when copy_right is true and then buffer_r[k, iz, ir] =
\* grid_k[Nz - nz_end + iz, ir]; every grid row read lies in [0, Nz-1].
C20_HaloCopy == [][HaloCopied' /\ IdleThreads]_vars

\* Every thread of a launch to both sides has run, on a region of two rows
\* whose left and right copies differ, threads outside the region included
C20_Witness ==
    /\ launched = "copy_vec" /\ ran = CudaGrid
    /\ copy_left /\ copy_right
    /\ nz_start = 0 /\ nz_end = 2
    /\ buffer_l[5][1][1] = 611 /\ buffer_r[5][1][1] = 621
    /\ rows = {0, 1, 2}

(***************************************************************************)
(* The halo replace and add kernels                                        *)
(***************************************************************************)
BothSides == launched \in {"replace_vec", "replace_scal", "add_vec", "add_scal"} /\ copy_left /\ copy_right
Region == nz_end - nz_start
OldCell(k, iz, ir) == GridsOfShape(NGrids(launched), ShapeNz, ShapeNr)[k][iz][ir]
Kept(k, iz, ir) == IF launched \in AddKernels THEN OldCell(k, iz, ir) ELSE 0
ExpectedCell(k, iz, ir) ==
    IF iz < Region THEN Kept(k, iz, ir) + buffer_l[k][iz][ir]
    ELSE IF iz >= ShapeNz - Region
         THEN Kept(k, iz, ir) + buffer_r[k][iz - (ShapeNz - Region)][ir]
         ELSE OldCell(k, iz, ir)
OneWriter == \A c \in DOMAIN wrote : Cardinality(wrote[c]) <= 1
GuardsExchanged ==
    ran = GridThreads =>
        \A k \in DOMAIN grids : \A c \in GridThreads :
            grids[k][c[1]][c[2]] = ExpectedCell(k, c[1], c[2])

\* C21 as stated: in a launch of a replace or add kernel with copy_left and
\* copy_right both true, for any region 0 <= nz_start <= nz_end <= Nz, no
\* grid cell is written by two different threads, and when all threads have
\* run the rows [0, n) hold the kept value plus the left buffer, the rows
\* [Nz - n, Nz) the kept value plus the right buffer (n = nz_end - nz_start,
\* kept value = old value for add, nothing for replace), and all other rows
\* are unchanged.
C21_AnyRegion == BothSides => (OneWriter /\ GuardsExchanged)

\* C21, amended: the same, for the regions with 2 * (nz_end - nz_start) <= Nz,
\* that is when the rows [0, n) and [Nz - n, Nz) do not overlap.
C21_DisjointGuards == (BothSides /\ 2 * Region <= ShapeNz) => (OneWriter /\ GuardsExchanged)

\* An add launch on 4 rows with n = 2 has run: the last row of the last
\* grid holds its old value 630 plus the right buffer's 2610
C21_Witness ==
    /\ launched = "add_vec" /\ copy_left /\ copy_right
    /\ ShapeNz = 4 /\ nz_start = 1 /\ nz_end = 3
    /\ ran = GridThreads
    /\ grids[5][3][0] = 3240
    /\ wrote[<<3, 0>>] = {<<1, 0>>}

(***************************************************************************)
(* The ionization                                                          *)
(***************************************************************************)
BatchOf(b) == {i \in Ions : b * batch_size <= i /\ i < (b + 1) * batch_size}
AfterIonization == ionizing = "returned" /\ ionizations > 0

\* C22: after every call of ionize_ions_numba, in any sequence of calls on
\* the same arrays, n_ionized[b] is the number of ions ip of batch b with
\* is_ionized[ip] = 1.
C22_FlagsMatchCounts ==
    AfterIonization =>
        \A b \in 0..(N_batch - 1) :
            n_ionized[b] = Cardinality({i \in BatchOf(b) : is_ionized[i] = 1})

\* C23: in any sequence of calls of ionize_ions_numba the level of an ion
\* is at least its level at the entry of the current call and at most one
\* more, is at most z_max if it was at most z_max at first; an ion entering
\* a call at a level >= z_max keeps its level and its weight; the ions
\* visited by a call are in [0, Ntot), each visited at most once.
C23_LevelBound ==
    ionizing # "none" =>
        /\ \A i \in Ions :
            /\ entry.level[i] <= ionization_level[i]
            /\ ionization_level[i] <= entry.level[i] + 1
            /\ entry.first[i] <= ionization_level[i]
            /\ entry.first[i] <= z_max => ionization_level[i] <= z_max
            /\ entry.level[i] >= z_max =>
                   ionization_level[i] = entry.level[i] /\ w[i] = entry.w[i]
        /\ \A k \in 1..Len(seen) : seen[k] \in Ions
        /\ \A k \in 1..Len(seen) : \A j \in 1..Len(seen) : seen[k] = seen[j] => k = j

\* Three calls on 3 ions, z_max = 2: ion 0, neutral at first, was ionized
\* twice and then visited and skipped by the third call, next to ion 2
\* which was at level 2 from the first
C23_Witness ==
    /\ AfterIonization /\ ionizations = 3 /\ Ntot = 3 /\ z_max = 2
    /\ entry.first = [i \in Ions |-> i]
    /\ entry.level[0] = 2 /\ ionization_level[0] = 2 /\ w[0] = 4
    /\ ionization_level[2] = 2 /\ w[2] = 4
    /\ seen = <<0, 1, 2>>
====
